---- MODULE Spec2Model ----
(***************************************************************************)
(* pgDog: the client session loop (frontend/client.rs), the server         *)
(* connection's protocol state machine (backend/server.rs) and the pool    *)
(* the sessions check connections out of.                                  *)
(***************************************************************************)
EXTENDS Integers, Sequences, FiniteSets, TLC

\* ------------------------------------------------------------------ bounds
\* Client messages read by the session of Spec.
MaxMsgs == 4
\* Client messages read by the session of SpecMonitor.
MaxMonMsgs == 2
\* Client messages read by the sessions of SpecPool together.
MaxPoolMsgs == 3
\* Server connections ever opened by the pool.
MaxConns == 2
\* I/O failures injected in one behaviour.
MaxFaults == 1
\* Operations applied to the connection of SpecServer.
MaxOps == 4
\* Messages the server sends in answer to one execute of SpecServer.
MaxReplies == 2
\* DataRows added to the sort buffer of SpecSort.
MaxRows == 2
MaxColumns == 2
MaxFields == 2
MaxTypes == 2
MaxShards == 3
MaxCalls == 4
\* Messages the server sends during the setup of one connection.
MaxSetup == 6

\* ------------------------------------------------------- pool configuration
\* Config.max and Config.min of the pool under test.
max == 1
min == 1

\* Duration::from_millis
from_millis(ms) == [millis |-> ms]

\* Config::connect_timeout
connect_timeout(c) == from_millis(c.checkout_timeout)

\* Config::checkout_timeout
checkout_timeout(c) == from_millis(c.checkout_timeout)

\* Config::idle_timeout
idle_timeout(c) == from_millis(c.idle_timeout)

\* Config::max_age
max_age(c) == from_millis(c.max_age)

Clients == {"c1", "c2"}
ConnIds == 1..MaxConns
NoConn == 0

\* ------------------------------------------------------------- State (enum)
States == {"Idle", "Active", "IdleInTransaction", "TransactionError",
           "Error", "Disconnected"}

\* ------------------------------------------------------ Server (server.rs)
IoError == [code |-> "ioerr", status |-> "-"]

\* Server::done
done(state) == state = "Idle"

in_sync_while_active(state) ==
    state \in {"IdleInTransaction", "TransactionError", "Idle", "Active"}

\* Server::in_sync
in_sync(state) == state \in {"IdleInTransaction", "TransactionError", "Idle"}

\* Server::in_transaction
in_transaction(state) == state \in {"IdleInTransaction", "TransactionError"}

error_never(state) == FALSE

\* Server::error
error(state) == state = "Error"

send_keeps_state(state, ok) == IF ok THEN state ELSE "Error"

\* Server::send: the state is set to Active before the write; a failed write
\* leaves Error.
send(state, ok) == IF ok THEN "Active" ELSE "Error"

server_flush_activates(state, ok) == IF ok THEN "Active" ELSE "Error"

\* Server::flush
server_flush(state, ok) == IF ok THEN state ELSE "Error"

read_ignores_unknown_status(state, r) ==
    IF r = IoError THEN "Error"
    ELSE IF r.code = "Z"
         THEN CASE r.status = "I" -> "Idle"
                [] r.status = "T" -> "IdleInTransaction"
                [] r.status = "E" -> "TransactionError"
                [] OTHER -> state
         ELSE state

\* Server::read: the state after reading outcome r (a message or IoError).
read(state, r) ==
    IF r = IoError THEN "Error"
    ELSE IF r.code = "Z"
         THEN CASE r.status = "I" -> "Idle"
                [] r.status = "T" -> "IdleInTransaction"
                [] r.status = "E" -> "TransactionError"
                [] OTHER -> "Error"
         ELSE state

\* Server::read returns Ok(message)
read_ok(r) == r # IoError /\ (r.code = "Z" => r.status \in {"I", "T", "E"})

\* The loop of Server::execute: read until in sync again or a read fails.
\* Returns the state, whether every read succeeded and how many were made.
RECURSIVE read_until_sync(_, _, _)
read_until_sync(state, replies, n) ==
    IF in_sync(state) THEN [state |-> state, ok |-> TRUE, n |-> n]
    ELSE IF n >= Len(replies)
         THEN [state |-> state, ok |-> TRUE, n |-> n]
         ELSE LET r == replies[n + 1] IN
              IF read_ok(r) THEN read_until_sync(read(state, r), replies, n + 1)
              ELSE [state |-> read(state, r), ok |-> FALSE, n |-> n + 1]

execute_unchecked(state, sendOk, replies) ==
    IF ~sendOk
    THEN [state |-> send(state, FALSE), ok |-> FALSE, n |-> 0, sent |-> FALSE]
    ELSE LET l == read_until_sync(send(state, TRUE), replies, 0) IN
         [state |-> l.state, ok |-> l.ok, n |-> l.n, sent |-> TRUE]

\* Server::execute
execute(state, sendOk, replies) ==
    IF ~in_sync(state)
    THEN [state |-> state, ok |-> FALSE, n |-> 0, sent |-> FALSE]
    ELSE IF ~sendOk
         THEN [state |-> send(state, FALSE), ok |-> FALSE, n |-> 0, sent |-> FALSE]
         ELSE LET l == read_until_sync(send(state, TRUE), replies, 0) IN
              [state |-> l.state, ok |-> l.ok, n |-> l.n, sent |-> TRUE]

\* Server::rollback
rollback_always(state, sendOk, replies) ==
    LET e == execute(state, sendOk, replies)
        s1 == IF e.ok THEN e.state ELSE "Error"
    IN [state |-> IF in_sync(s1) THEN s1 ELSE "Error", n |-> e.n, sent |-> e.sent]

rollback_best_effort(state, sendOk, replies) ==
    LET e == IF in_transaction(state)
             THEN execute(state, sendOk, replies)
             ELSE [state |-> state, ok |-> TRUE, n |-> 0, sent |-> FALSE]
    IN [state |-> IF e.ok THEN e.state ELSE "Error", n |-> e.n, sent |-> e.sent]

rollback(state, sendOk, replies) ==
    LET e == IF in_transaction(state)
             THEN execute(state, sendOk, replies)
             ELSE [state |-> state, ok |-> TRUE, n |-> 0, sent |-> FALSE]
        s1 == IF e.ok THEN e.state ELSE "Error"
    IN [state |-> IF in_sync(s1) THEN s1 ELSE "Error", n |-> e.n, sent |-> e.sent]

\* ------------------------------------------------------------ wire messages
\* What a client can send: simple queries, Parse, Sync, Flush, Terminate.
\* A client's ROLLBACK acts on the proxy exactly as its COMMIT does (both end
\* the transaction), so the clients here end theirs with COMMIT.
ClientMessages ==
    { [code |-> "Q", sql |-> "BEGIN"], [code |-> "Q", sql |-> "COMMIT"],
      [code |-> "Q", sql |-> "SELECT"], [code |-> "P", sql |-> "-"],
      [code |-> "S", sql |-> "-"], [code |-> "H", sql |-> "-"],
      [code |-> "X", sql |-> "-"] }

\* The ROLLBACK the pool issues through Server::rollback.
RollbackQuery == [code |-> "Q", sql |-> "ROLLBACK", seq |-> 0]

\* The PostgreSQL backend behind a connection: the replies to one message and
\* the transaction status afterwards. Every Query and every Sync is answered
\* by exactly one ReadyForQuery carrying the status.
backend_tx(tx, m) ==
    IF m.code = "Q"
    THEN (IF m.sql = "BEGIN" THEN (IF tx = "I" THEN "T" ELSE tx)
          ELSE IF m.sql \in {"COMMIT", "ROLLBACK"} THEN "I" ELSE tx)
    ELSE tx

backend_replies(tx, m) ==
    CASE m.code = "Q" -> << [code |-> "C", status |-> "-"],
                            [code |-> "Z", status |-> backend_tx(tx, m)] >>
      [] m.code = "S" -> << [code |-> "Z", status |-> tx] >>
      [] m.code = "P" -> << [code |-> "1", status |-> "-"] >>
      [] OTHER -> << >>

\* A connection: the proxy's Server.state, and behind the stream the
\* backend's transaction status, the replies not yet read and how many
\* replies it has produced.
NewConn == [state |-> "Idle", tx |-> "I", out |-> << >>, nout |-> 0]
NoStream == [state |-> "Disconnected", tx |-> "I", out |-> << >>, nout |-> 0]

Tag(replies, from, re, base) ==
    [i \in 1..Len(replies) |->
        [code |-> replies[i].code, status |-> replies[i].status,
         from |-> from, re |-> re, n |-> base + i]]

\* The stream carries msgs to the backend, which answers them in order.
RECURSIVE deliver(_, _, _)
deliver(k, msgs, from) ==
    IF msgs = << >> THEN k
    ELSE LET m == Head(msgs)
             r == backend_replies(k.tx, m)
         IN deliver([k EXCEPT !.tx = backend_tx(k.tx, m),
                              !.out = k.out \o Tag(r, from, m.seq, k.nout),
                              !.nout = k.nout + Len(r)],
                    Tail(msgs), from)

\* ----------------------------------------------------- Buffer (frontend)
\* Buffer::full: the last message is a synchronization point.
full(b) == b # << >> /\ b[Len(b)].code \in {"Q", "S", "c", "H"}

\* Buffer::flush: the client asked for a Flush.
buffer_flush(b) == b # << >> /\ b[Len(b)].code = "H"

\* Buffer::push
push(b, m) == Append(b, m)

\* ------------------------------------------- Server, with its ConnStats
\* What the stream can hand to Server::read: an I/O error, a ReadyForQuery
\* with a known or an unknown status byte, or another message.
Replies ==
    { IoError, [code |-> "D", status |-> "-"] }
    \cup { [code |-> "Z", status |-> x] : x \in {"I", "T", "E", "?", "X"} }

read_queries_when_idle(q, r) ==
    IF r # IoError /\ r.code = "Z" /\ r.status = "I" THEN q + 1 ELSE q

\* Server::read, stats.queries: counted for every ReadyForQuery.
read_queries(q, r) == IF r # IoError /\ r.code = "Z" THEN q + 1 ELSE q

\* Server::read, stats.transactions: counted for a ReadyForQuery with 'I'.
read_transactions(n, r) ==
    IF r # IoError /\ r.code = "Z" /\ r.status = "I" THEN n + 1 ELSE n

\* The Server as Server::connect returns it.
NewServer == [state |-> "Idle", queries |-> 0, transactions |-> 0,
              sent |-> 0, result |-> "Ok"]

\* The result of a Server::read of r.
read_result(r) ==
    IF r = IoError THEN "Io"
    ELSE IF read_ok(r) THEN "Ok" ELSE "UnexpectedTransactionStatus"

\* The Server after Server::read of r.
server_read(v, r) ==
    [v EXCEPT !.state = read(v.state, r),
              !.queries = read_queries(v.queries, r),
              !.transactions = read_transactions(v.transactions, r),
              !.result = read_result(r)]

RECURSIVE server_reads(_, _, _)
server_reads(v, replies, n) ==
    IF n = 0 THEN v
    ELSE server_read(server_reads(v, replies, n - 1), replies[n])

\* The Server after Server::execute, which read the first e.n replies.
server_execute(v, sendOk, replies) ==
    LET e == execute(v.state, sendOk, replies)
        w == server_reads(v, replies, e.n)
    IN [w EXCEPT !.state = e.state,
                 !.sent = IF e.sent THEN @ + 1 ELSE @,
                 !.result = IF ~in_sync(v.state) THEN "NotInSync"
                            ELSE IF ~sendOk THEN "Io" ELSE w.result]

\* The Server after Server::rollback.
server_rollback(v, sendOk, replies) ==
    LET r == rollback(v.state, sendOk, replies)
        w == server_reads(v, replies, r.n)
    IN [w EXCEPT !.state = r.state,
                 !.sent = IF r.sent THEN @ + 1 ELSE @,
                 !.result = "Ok"]

\* The replies an execute can meet: they end with the message that puts the
\* connection in sync again, or with the read that fails.
ReplySeqs ==
    UNION { [1..n -> Replies] : n \in 1..MaxReplies }

Complete(replies) ==
    LET l == read_until_sync("Active", replies, 0) IN
    l.n = Len(replies) /\ (in_sync(l.state) \/ ~l.ok)

\* Error::UnexpectedTransactionStatus(status) of a Server::read of r.
read_error(r) ==
    IF r # IoError /\ ~read_ok(r)
    THEN [error |-> "UnexpectedTransactionStatus", status |-> r.status]
    ELSE [error |-> read_result(r), status |-> "-"]

\* The messages Server::execute returns: every message read, when all the
\* reads succeeded.
execute_messages(state, sendOk, replies) ==
    LET e == execute(state, sendOk, replies) IN
    IF e.ok THEN SubSeq(replies, 1, e.n) ELSE << >>

\* The last operation on a Server: none yet.
NoOp == [op |-> "-", ok |-> TRUE, reads |-> << >>, before |-> NewServer,
         returned |-> << >>, status |-> "-"]

\* ------------------------------------------------ wire codec (net/messages)
\* Bytes are sequences of 0..255; integers are big-endian two's complement.
byte(w, i) == (w \div (256 ^ i)) % 256

put_u(w, n) == [i \in 1..n |-> byte(w, n - i)]

put_int(v, n) ==
    IF v >= 0 THEN put_u(v, n)
    ELSE [i \in 1..n |-> 255 - byte(-v - 1, n - i)]

\* Payload::put_i32, Payload::put_i16
put_i32(v) == put_int(v, 4)
put_i16(v) == put_int(v, 2)

RECURSIVE get_u(_, _)
get_u(b, n) == IF n = 0 THEN 0 ELSE get_u(b, n - 1) * 256 + b[n]

get_int(b, n) ==
    IF b[1] < 128 THEN get_u(b, n)
    ELSE -get_u([i \in 1..n |-> 255 - b[i]], n) - 1

\* Buf::get_i32, Buf::get_i16 on the first bytes of b; they panic when
\* fewer bytes remain.
get_i32(b) == get_int(b, 4)
get_i16(b) == get_int(b, 2)

Drop(b, n) == SubSeq(b, n + 1, Len(b))
Take(b, n) == SubSeq(b, 1, n)

\* Payload::named(code) ... freeze(): tag, length (itself included), payload.
freeze(code, payload) == <<code>> \o put_i32(Len(payload) + 4) \o payload

\* Payload::put_string: the bytes and a NUL.
put_string(s) == s \o <<0>>

\* c_string_buf: the bytes up to a NUL, or up to the end of the buffer.
RECURSIVE c_string_len(_)
c_string_len(b) ==
    IF b = << >> \/ b[1] = 0 THEN 0 ELSE 1 + c_string_len(Tail(b))

c_string_buf(b) ==
    LET n == c_string_len(b) IN
    [value |-> Take(b, n),
     rest |-> IF n < Len(b) THEN Drop(b, n + 1) ELSE << >>]

Panic == [ok |-> FALSE, error |-> "panic"]
UnexpectedMessage == [ok |-> FALSE, error |-> "UnexpectedMessage"]
Ok(v) == [ok |-> TRUE, value |-> v]

\* The tag and the length every from_bytes reads first: code!(bytes, c) and
\* bytes.get_i32().
header(b, code) ==
    IF b = << >> THEN Panic
    ELSE IF b[1] # code THEN UnexpectedMessage
    ELSE IF Len(b) < 5 THEN Panic
    ELSE Ok(Drop(b, 5))

\* ------------------------------------------------------- DataRow (data_row.rs)
CodeD == 68

\* One turn of the closure of DataRow::from_bytes: the length is read and
\* cast to usize, and that many bytes are read one by one. A negative
\* length casts to more than any buffer holds, and get_u8 panics when the
\* buffer is exhausted.
data_row_column(b) ==
    IF Len(b) < 4 THEN Panic
    ELSE LET len == get_i32(b)
             rest == Drop(b, 4)
         IN IF len < 0 \/ len > Len(rest) THEN Panic
            ELSE [ok |-> TRUE, column |-> Take(rest, len),
                  rest |-> Drop(rest, len)]

RECURSIVE data_row_columns(_, _)
data_row_columns(b, n) ==
    IF n <= 0 THEN [ok |-> TRUE, columns |-> << >>, rest |-> b]
    ELSE LET c == data_row_column(b) IN
         IF ~c.ok THEN c
         ELSE LET r == data_row_columns(c.rest, n - 1) IN
              IF ~r.ok THEN r
              ELSE [ok |-> TRUE, columns |-> <<c.column>> \o r.columns,
                    rest |-> r.rest]

\* DataRow::from_bytes
data_row_from_bytes(b) ==
    LET h == header(b, CodeD) IN
    IF ~h.ok THEN h
    ELSE IF Len(h.value) < 2 THEN Panic
    ELSE LET r == data_row_columns(Drop(h.value, 2), get_i16(h.value)) IN
         IF ~r.ok THEN r ELSE Ok([columns |-> r.columns])

RECURSIVE put_columns(_)
put_columns(columns) ==
    IF columns = << >> THEN << >>
    ELSE put_i32(Len(Head(columns))) \o Head(columns)
         \o put_columns(Tail(columns))

\* DataRow::to_bytes
data_row_to_bytes(m) ==
    freeze(CodeD, put_i16(Len(m.columns)) \o put_columns(m.columns))

\* A DataRow as the PostgreSQL server writes it: a column is its bytes or
\* NULL, which is sent as length -1 and no bytes.
Null == [null |-> TRUE, data |-> << >>]
Data(d) == [null |-> FALSE, data |-> d]

RECURSIVE wire_columns(_)
wire_columns(columns) ==
    IF columns = << >> THEN << >>
    ELSE (IF Head(columns).null THEN put_i32(-1)
          ELSE put_i32(Len(Head(columns).data)) \o Head(columns).data)
         \o wire_columns(Tail(columns))

wire_data_row(columns) ==
    freeze(CodeD, put_i16(Len(columns)) \o wire_columns(columns))

\* ------------------------------------- RowDescription (row_description.rs)
CodeT == 84

\* Field::numeric, Field::text, Field::bool
numeric(name) == [name |-> name, table_oid |-> 0, column |-> 0, type_oid |-> 1700,
                  type_size |-> -1, type_modifier |-> -1, format |-> 0]
text(name) == [name |-> name, table_oid |-> 0, column |-> 0, type_oid |-> 25,
               type_size |-> -1, type_modifier |-> -1, format |-> 0]
bool(name) == [name |-> name, table_oid |-> 0, column |-> 0, type_oid |-> 16,
               type_size |-> 1, type_modifier |-> -1, format |-> 0]

\* RowDescription::equivalent: the fields are zipped, so the loop ends with
\* the shorter of the two.
RECURSIVE zip_equivalent(_, _, _)
zip_equivalent(a, b, i) ==
    IF i > Len(a) \/ i > Len(b) THEN TRUE
    ELSE IF a[i].name # b[i].name THEN FALSE
    ELSE IF a[i].type_oid # b[i].type_oid THEN FALSE
    ELSE zip_equivalent(a, b, i + 1)

equivalent(a, b) == zip_equivalent(a.fields, b.fields, 1)

\* RowDescription::to_bytes
RECURSIVE put_fields(_)
put_fields(fields) ==
    IF fields = << >> THEN << >>
    ELSE LET f == Head(fields) IN
         put_string(f.name) \o put_i32(f.table_oid) \o put_i16(f.column)
         \o put_i32(f.type_oid) \o put_i16(f.type_size)
         \o put_i32(f.type_modifier) \o put_i16(f.format)
         \o put_fields(Tail(fields))

row_description_to_bytes(m) ==
    freeze(CodeT, put_i16(Len(m.fields)) \o put_fields(m.fields))

\* RowDescription::from_bytes, one field
row_description_field(b) ==
    LET s == c_string_buf(b)
        r == s.rest
    IN IF Len(r) < 18 THEN Panic
       ELSE [ok |-> TRUE,
             field |-> [name |-> s.value,
                        table_oid |-> get_i32(r),
                        column |-> get_i16(Drop(r, 4)),
                        type_oid |-> get_i32(Drop(r, 6)),
                        type_size |-> get_i16(Drop(r, 10)),
                        type_modifier |-> get_i32(Drop(r, 12)),
                        format |-> get_i16(Drop(r, 16))],
             rest |-> Drop(r, 18)]

RECURSIVE row_description_fields(_, _)
row_description_fields(b, n) ==
    IF n <= 0 THEN [ok |-> TRUE, fields |-> << >>, rest |-> b]
    ELSE LET f == row_description_field(b) IN
         IF ~f.ok THEN f
         ELSE LET r == row_description_fields(f.rest, n - 1) IN
              IF ~r.ok THEN r
              ELSE [ok |-> TRUE, fields |-> <<f.field>> \o r.fields,
                    rest |-> r.rest]

\* RowDescription::from_bytes
row_description_from_bytes(b) ==
    LET h == header(b, CodeT) IN
    IF ~h.ok THEN h
    ELSE IF Len(h.value) < 2 THEN Panic
    ELSE LET r == row_description_fields(Drop(h.value, 2), get_i16(h.value)) IN
         IF ~r.ok THEN r ELSE Ok([fields |-> r.fields])

\* --------------------------------------------------------- Parse (parse.rs)
CodeP == 80

RECURSIVE put_i32s(_)
put_i32s(s) == IF s = << >> THEN << >> ELSE put_i32(Head(s)) \o put_i32s(Tail(s))

\* Parse::to_bytes
parse_to_bytes(m) ==
    freeze(CodeP, put_string(m.name) \o put_string(m.query)
                  \o put_i16(Len(m.data_types)) \o put_i32s(m.data_types))

RECURSIVE get_i32s(_, _)
get_i32s(b, n) ==
    IF n = 0 THEN [ok |-> TRUE, values |-> << >>]
    ELSE IF Len(b) < 4 THEN Panic
    ELSE LET r == get_i32s(Drop(b, 4), n - 1) IN
         IF ~r.ok THEN r
         ELSE [ok |-> TRUE, values |-> <<get_i32(b)>> \o r.values]

\* Parse::from_bytes: the number of parameters is cast to usize, so a
\* negative one is more than the buffer holds.
parse_from_bytes(b) ==
    LET h == header(b, CodeP) IN
    IF ~h.ok THEN h
    ELSE LET name == c_string_buf(h.value)
             query == c_string_buf(name.rest)
         IN IF Len(query.rest) < 2 THEN Panic
            ELSE LET params == get_i16(query.rest) IN
                 IF params < 0 THEN Panic
                 ELSE LET d == get_i32s(Drop(query.rest, 2), params) IN
                      IF ~d.ok THEN d
                      ELSE Ok([name |-> name.value, query |-> query.value,
                               data_types |-> d.values])

\* ------------------------------------------------- Password (password.rs)
CodePassword == 112

password_to_bytes_unterminated(m) ==
    IF m.variant = "SASLInitialResponse"
    THEN freeze(CodePassword, m.name \o put_i32(Len(m.response)) \o m.response)
    ELSE freeze(CodePassword, m.response)

\* Password::to_bytes
password_to_bytes(m) ==
    IF m.variant = "SASLInitialResponse"
    THEN freeze(CodePassword, put_string(m.name) \o put_i32(Len(m.response))
                              \o m.response)
    ELSE freeze(CodePassword, m.response)

\* Password::from_bytes
password_from_bytes(b) ==
    LET h == header(b, CodePassword) IN
    IF ~h.ok THEN h
    ELSE LET content == c_string_buf(h.value) IN
         IF content.rest # << >>
         THEN IF Len(content.rest) < 4 THEN Panic
              ELSE LET len == get_i32(content.rest)
                       response == IF len >= 0
                                   THEN c_string_buf(Drop(content.rest, 4)).value
                                   ELSE << >>
                   IN Ok([variant |-> "SASLInitialResponse",
                          name |-> content.value, response |-> response])
         ELSE Ok([variant |-> "SASLResponse", response |-> content.value])

\* ------------------------------------------- RowDescription (field names)
\* RowDescription::field_index: the first field of that name.
field_index(rd, name) ==
    IF \E i \in 1..Len(rd) : rd[i].name = name
    THEN [some |-> TRUE,
          index |-> (CHOOSE i \in 1..Len(rd) :
                        rd[i].name = name
                        /\ \A j \in 1..(i - 1) : rd[j].name # name) - 1]
    ELSE [some |-> FALSE, index |-> 0]

\* ------------------------------------------- SortBuffer (sort_buffer.rs)
\* OrderBy::index, asc and name: a positional clause holds the 1-based
\* position of SQL and index() is the 0-based column.
order_by_index(c) ==
    IF c.kind \in {"Asc", "Desc"}
    THEN [some |-> TRUE, index |-> c.column - 1]
    ELSE [some |-> FALSE, index |-> 0]

order_by_asc(c) == c.kind \in {"Asc", "AscColumn"}

order_by_name(c) ==
    IF c.kind \in {"AscColumn", "DescColumn"}
    THEN [some |-> TRUE, name |-> c.name]
    ELSE [some |-> FALSE, name |-> ""]

\* SortBuffer::sort, the first loop: every clause becomes Some((index, asc))
\* or None.
sort_cols(columns, rd) ==
    [i \in 1..Len(columns) |->
        LET c == columns[i] IN
        IF order_by_index(c).some
        THEN [some |-> TRUE, index |-> order_by_index(c).index,
              asc |-> order_by_asc(c)]
        ELSE IF order_by_name(c).some /\ field_index(rd, order_by_name(c).name).some
             THEN [some |-> TRUE,
                   index |-> field_index(rd, order_by_name(c).name).index,
                   asc |-> order_by_asc(c)]
             ELSE [some |-> FALSE, index |-> 0, asc |-> TRUE]]

\* A text column holding a decimal number, as a number.
RECURSIVE decimal(_)
decimal(d) ==
    IF d = << >> THEN 0 ELSE decimal(Take(d, Len(d) - 1)) * 10 + (d[Len(d)] - 48)

\* DataRow::get_column(index, rd): the value of the column when the row
\* and the row description both have it.
get_column(row, index, rd) ==
    IF index + 1 \in 1..Len(rd) /\ index + 1 \in 1..Len(row.columns)
       /\ row.columns[index + 1] # << >>
    THEN [some |-> TRUE, value |-> decimal(row.columns[index + 1])]
    ELSE [some |-> FALSE, value |-> 0]

partial_cmp(x, y) == IF x < y THEN "Less" ELSE IF x > y THEN "Greater" ELSE "Equal"

order_by_first_clause(a, b, cols, rd, i) ==
    IF i > Len(cols) \/ ~cols[i].some THEN "Equal"
    ELSE LET left == get_column(a, cols[i].index, rd)
             right == get_column(b, cols[i].index, rd)
         IN IF left.some /\ right.some
            THEN (IF cols[i].asc THEN partial_cmp(left.value, right.value)
                  ELSE partial_cmp(right.value, left.value))
            ELSE "Equal"

\* SortBuffer::sort, the closure order_by, from clause i on.
RECURSIVE order_by(_, _, _, _, _)
order_by(a, b, cols, rd, i) ==
    IF i > Len(cols) THEN "Equal"
    ELSE IF ~cols[i].some THEN order_by(a, b, cols, rd, i + 1)
    ELSE LET left == get_column(a, cols[i].index, rd)
             right == get_column(b, cols[i].index, rd)
             ordering == IF left.some /\ right.some
                         THEN (IF cols[i].asc
                               THEN partial_cmp(left.value, right.value)
                               ELSE partial_cmp(right.value, left.value))
                         ELSE "Equal"
         IN IF ordering # "Equal" THEN ordering
            ELSE order_by(a, b, cols, rd, i + 1)

\* slice::sort_by: a stable sort; x goes behind every element that does
\* not compare Greater than it.
RECURSIVE insert_sorted(_, _, _, _)
insert_sorted(s, x, cols, rd) ==
    IF s = << >> THEN <<x>>
    ELSE IF order_by(s[Len(s)], x, cols, rd, 1) = "Greater"
         THEN Append(insert_sorted(Take(s, Len(s) - 1), x, cols, rd), s[Len(s)])
         ELSE Append(s, x)

RECURSIVE sort_by(_, _, _)
sort_by(s, cols, rd) ==
    IF s = << >> THEN << >>
    ELSE insert_sorted(sort_by(Take(s, Len(s) - 1), cols, rd), s[Len(s)], cols, rd)

\* SortBuffer::default
NewSortBuffer == [buffer |-> << >>, full |-> FALSE]

\* SortBuffer::add
sort_buffer_add(b, message) ==
    LET dr == data_row_from_bytes(message) IN
    IF dr.ok THEN [ok |-> TRUE, error |-> "",
                   sb |-> [b EXCEPT !.buffer = Append(@, dr.value)]]
    ELSE [ok |-> FALSE, error |-> dr.error, sb |-> b]

\* SortBuffer::full
sort_buffer_full(b) == [b EXCEPT !.full = TRUE]

\* SortBuffer::sort
sort_buffer_sort(b, columns, rd) ==
    [b EXCEPT !.buffer = sort_by(@, sort_cols(columns, rd), rd)]

sort_buffer_take_early(b) ==
    IF b.buffer # << >>
    THEN [some |-> TRUE, message |-> data_row_to_bytes(Head(b.buffer)),
          sb |-> [b EXCEPT !.buffer = Tail(@)]]
    ELSE [some |-> FALSE, message |-> << >>, sb |-> b]

\* SortBuffer::take
sort_buffer_take(b) ==
    IF b.full /\ b.buffer # << >>
    THEN [some |-> TRUE, message |-> data_row_to_bytes(Head(b.buffer)),
          sb |-> [b EXCEPT !.buffer = Tail(@)]]
    ELSE [some |-> FALSE, message |-> << >>, sb |-> b]

\* --------------------------------------------- Route (router/parser/route)
None == [some |-> FALSE]
Some(v) == [some |-> TRUE, value |-> v]

Shard_ANY == [selector |-> "Any"]
Shard_ALL == [selector |-> "All"]
One(i) == [selector |-> "One", shard |-> i]

\* Route::read(shard), Route::write(shard): no shard given is any shard.
route_read(shard) ==
    [shard |-> IF shard.some THEN One(shard.value) ELSE Shard_ANY,
     affinity |-> "Read", order_by |-> << >>]

route_write(shard) ==
    [shard |-> IF shard.some THEN One(shard.value) ELSE Shard_ANY,
     affinity |-> "Write", order_by |-> << >>]

\* Route::select(shard, order_by): no shard given is all shards.
route_select(shard, sort) ==
    [shard |-> IF shard.some THEN One(shard.value) ELSE Shard_ALL,
     affinity |-> "Read", order_by |-> sort]

\* Route::overwrite_shard
overwrite_shard(route, shard) == [route EXCEPT !.shard = One(shard)]

\* ------------------------------------- QueryParser (router/parser/query.rs)
Query(route) == [command |-> "Query", route |-> route]
Copy == [command |-> "Copy"]
StartTransaction == [command |-> "StartTransaction"]
CommitTransaction == [command |-> "CommitTransaction"]
RollbackTransaction == [command |-> "RollbackTransaction"]

\* comment::shard: the N of /* pgdog_shard: N */, when within range.
comment_shard(comment, shards) ==
    IF comment.some /\ comment.value < shards THEN comment ELSE None

\* sharding::shard_str: a value that is not a number has no shard; the hash
\* of a number is taken to be the number itself.
shard_str(value, shards) ==
    IF value.number THEN Some(value.value % shards) ELSE None

\* Bind::parameter(index) and Parameter::text()
bind_parameter_text(bind, index) ==
    IF index + 1 \in 1..Len(bind) /\ bind[index + 1].format = "text"
    THEN Some(bind[index + 1].value)
    ELSE None

key_shard_next_parameter(key, shards, params) ==
    IF key.key = "Constant" THEN shard_str(key.value, shards)
    ELSE IF ~params.some THEN None
    ELSE LET text_ == bind_parameter_text(params.value, key.param + 1) IN
         IF text_.some THEN shard_str(text_.value, shards) ELSE None

\* One key of the WHERE clause, as the loop of select() treats it.
key_shard(key, shards, params) ==
    IF key.key = "Constant" THEN shard_str(key.value, shards)
    ELSE IF ~params.some THEN None
    ELSE LET text_ == bind_parameter_text(params.value, key.param) IN
         IF text_.some THEN shard_str(text_.value, shards) ELSE None

\* QueryParser::select_sort
RECURSIVE select_sort(_)
select_sort(nodes) ==
    IF nodes = << >> THEN << >>
    ELSE LET clause == Head(nodes)
             asc == clause.sortby_dir \in 0..2
             rest == select_sort(Tail(nodes))
         IN CASE clause.node = "AConst" /\ clause.val = "Ival" ->
                   <<[kind |-> IF asc THEN "Asc" ELSE "Desc",
                      column |-> clause.ival, name |-> ""]>> \o rest
              [] clause.node = "ColumnRef" /\ clause.field = "String" ->
                   <<[kind |-> IF asc THEN "AscColumn" ELSE "DescColumn",
                      column |-> 0, name |-> clause.sval]>> \o rest
              [] OTHER -> rest

select_pin_first(stmt, cluster, params) ==
    LET shards == {s \in 0..(cluster.shards - 1) :
                      \E key \in stmt.keys :
                          key_shard(key, cluster.shards, params) = Some(s)}
        shard == IF shards # {}
                 THEN Some(CHOOSE s \in shards : \A o \in shards : s <= o)
                 ELSE None
    IN Query(route_select(shard, select_sort(stmt.sort_clause)))

\* QueryParser::select
select(stmt, cluster, params) ==
    LET shards == {s \in 0..(cluster.shards - 1) :
                      \E key \in stmt.keys :
                          key_shard(key, cluster.shards, params) = Some(s)}
        shard == IF Cardinality(shards) = 1
                 THEN Some(CHOOSE s \in shards : TRUE)
                 ELSE None
    IN Query(route_select(shard, select_sort(stmt.sort_clause)))

\* QueryParser::copy: CopyParser::new gives a parser for a sharded table.
copy(stmt, cluster) ==
    IF stmt.sharded THEN Copy ELSE Query(route_write(None))

\* QueryParser::insert, update, delete
insert(stmt) == Query(route_write(None))
update(stmt) == Query(route_write(None))
delete(stmt) == Query(route_write(None))

query_match_first_shard(stmt, cluster, params, shard, round_robin) ==
    CASE stmt.node = "SelectStmt" ->
           IF ~stmt.tables /\ ~shard.some
           THEN [ret |-> TRUE, command |-> Query(route_read(Some(0)))]
           ELSE [ret |-> FALSE, command |-> select(stmt, cluster, params)]
      [] stmt.node = "CopyStmt" -> [ret |-> FALSE, command |-> copy(stmt, cluster)]
      [] stmt.node = "TransactionStmt" /\ stmt.kind = "TransStmtCommit" ->
           [ret |-> TRUE, command |-> CommitTransaction]
      [] stmt.node = "TransactionStmt" /\ stmt.kind = "TransStmtRollback" ->
           [ret |-> TRUE, command |-> RollbackTransaction]
      [] stmt.node = "TransactionStmt"
            /\ stmt.kind \in {"TransStmtBegin", "TransStmtStart"} ->
           [ret |-> TRUE, command |-> StartTransaction]
      [] OTHER -> [ret |-> FALSE, command |-> Query(route_write(None))]

query_match_begin_only(stmt, cluster, params, shard, round_robin) ==
    CASE stmt.node = "SelectStmt" ->
           IF ~stmt.tables /\ ~shard.some
           THEN [ret |-> TRUE,
                 command |-> Query(route_read(Some(round_robin % cluster.shards)))]
           ELSE [ret |-> FALSE, command |-> select(stmt, cluster, params)]
      [] stmt.node = "CopyStmt" -> [ret |-> FALSE, command |-> copy(stmt, cluster)]
      [] stmt.node = "TransactionStmt" /\ stmt.kind = "TransStmtCommit" ->
           [ret |-> TRUE, command |-> CommitTransaction]
      [] stmt.node = "TransactionStmt" /\ stmt.kind = "TransStmtRollback" ->
           [ret |-> TRUE, command |-> RollbackTransaction]
      [] stmt.node = "TransactionStmt" /\ stmt.kind = "TransStmtBegin" ->
           [ret |-> TRUE, command |-> StartTransaction]
      [] OTHER -> [ret |-> FALSE, command |-> Query(route_write(None))]

\* The match of QueryParser::query on the root node; ret says the arm
\* returns from query at once.
query_match_no_modulo(stmt, cluster, params, shard, round_robin) ==
    CASE stmt.node = "SelectStmt" ->
           IF ~stmt.tables /\ ~shard.some
           THEN [ret |-> TRUE,
                 command |-> Query(route_read(Some(round_robin)))]
           ELSE [ret |-> FALSE, command |-> select(stmt, cluster, params)]
      [] stmt.node = "CopyStmt" -> [ret |-> FALSE, command |-> copy(stmt, cluster)]
      [] stmt.node = "InsertStmt" -> [ret |-> FALSE, command |-> insert(stmt)]
      [] stmt.node = "UpdateStmt" -> [ret |-> FALSE, command |-> update(stmt)]
      [] stmt.node = "DeleteStmt" -> [ret |-> FALSE, command |-> delete(stmt)]
      [] stmt.node = "TransactionStmt" ->
           CASE stmt.kind = "TransStmtCommit" ->
                  [ret |-> TRUE, command |-> CommitTransaction]
             [] stmt.kind = "TransStmtRollback" ->
                  [ret |-> TRUE, command |-> RollbackTransaction]
             [] stmt.kind \in {"TransStmtBegin", "TransStmtStart"} ->
                  [ret |-> TRUE, command |-> StartTransaction]
             [] OTHER -> [ret |-> FALSE, command |-> Query(route_write(None))]
      [] OTHER -> [ret |-> FALSE, command |-> Query(route_write(None))]

query_match(stmt, cluster, params, shard, round_robin) ==
    CASE stmt.node = "SelectStmt" ->
           IF ~stmt.tables /\ ~shard.some
           THEN [ret |-> TRUE,
                 command |-> Query(route_read(Some(round_robin % cluster.shards)))]
           ELSE [ret |-> FALSE, command |-> select(stmt, cluster, params)]
      [] stmt.node = "CopyStmt" -> [ret |-> FALSE, command |-> copy(stmt, cluster)]
      [] stmt.node = "InsertStmt" -> [ret |-> FALSE, command |-> insert(stmt)]
      [] stmt.node = "UpdateStmt" -> [ret |-> FALSE, command |-> update(stmt)]
      [] stmt.node = "DeleteStmt" -> [ret |-> FALSE, command |-> delete(stmt)]
      [] stmt.node = "TransactionStmt" ->
           CASE stmt.kind = "TransStmtCommit" ->
                  [ret |-> TRUE, command |-> CommitTransaction]
             [] stmt.kind = "TransStmtRollback" ->
                  [ret |-> TRUE, command |-> RollbackTransaction]
             [] stmt.kind \in {"TransStmtBegin", "TransStmtStart"} ->
                  [ret |-> TRUE, command |-> StartTransaction]
             [] OTHER -> [ret |-> FALSE, command |-> Query(route_write(None))]
      [] OTHER -> [ret |-> FALSE, command |-> Query(route_write(None))]

query_cross_shard_write(stmt, cluster, params, round_robin) ==
    IF cluster.shards = 1 /\ cluster.read_only
    THEN Query(route_read(Some(0)))
    ELSE IF cluster.shards = 1 /\ cluster.write_only
    THEN Query(route_write(Some(0)))
    ELSE LET shard == comment_shard(stmt.comment, cluster.shards)
             m == query_match(stmt, cluster, params, shard, round_robin)
             commented ==
                 IF shard.some /\ m.command.command = "Query"
                 THEN Query(overwrite_shard(m.command.route, shard.value))
                 ELSE IF m.command.command = "Query"
                 THEN Query([m.command.route EXCEPT !.shard = Shard_ALL])
                 ELSE m.command
         IN IF m.ret THEN m.command
            ELSE IF cluster.shards = 1 /\ commented.command = "Query"
            THEN Query(overwrite_shard(commented.route, 0))
            ELSE commented

\* QueryParser::query
query(stmt, cluster, params, round_robin) ==
    IF cluster.shards = 1 /\ cluster.read_only
    THEN Query(route_read(Some(0)))
    ELSE IF cluster.shards = 1 /\ cluster.write_only
    THEN Query(route_write(Some(0)))
    ELSE LET shard == comment_shard(stmt.comment, cluster.shards)
             m == query_match(stmt, cluster, params, shard, round_robin)
             commented ==
                 IF shard.some /\ m.command.command = "Query"
                 THEN Query(overwrite_shard(m.command.route, shard.value))
                 ELSE m.command
         IN IF m.ret THEN m.command
            ELSE IF cluster.shards = 1 /\ commented.command = "Query"
            THEN Query(overwrite_shard(commented.route, 0))
            ELSE commented

\* QueryParser::route
route(command) ==
    CASE command.command = "Query" -> command.route
      [] command.command = "Copy" -> route_write(None)
      [] OTHER -> route_write(None)

\* Route::default
route_default == [shard |-> Shard_ANY, affinity |-> "Unknown", order_by |-> << >>]

\* QueryParser::default
QueryParserDefault == Query(route_default)

\* QueryParser::query as a Result: comment::shard and pg_query::parse fail on
\* a statement that does not parse, and a query without a statement is
\* EmptyQuery; the single-shard shortcut comes before both.
query_result(stmt, cluster, params, round_robin) ==
    IF cluster.shards = 1 /\ (cluster.read_only \/ cluster.write_only)
    THEN Ok(query(stmt, cluster, params, round_robin))
    ELSE IF stmt.node = "Invalid" THEN [ok |-> FALSE, error |-> "PgQuery"]
    ELSE IF stmt.node = "Empty" THEN [ok |-> FALSE, error |-> "EmptyQuery"]
    ELSE Ok(query(stmt, cluster, params, round_robin))

\* round_robin::next() is reached: the SELECT without tables and without a
\* shard comment, past the shortcut.
calls_next(stmt, cluster) ==
    /\ ~(cluster.shards = 1 /\ (cluster.read_only \/ cluster.write_only))
    /\ stmt.node = "SelectStmt" /\ ~stmt.tables
    /\ ~comment_shard(stmt.comment, cluster.shards).some

parse_forgets(command, buffer, cluster, round_robin) ==
    IF buffer.query.some
    THEN LET q == query_result(buffer.query.value, cluster, buffer.params,
                               round_robin)
         IN IF q.ok THEN [ok |-> TRUE, error |-> "", command |-> q.value]
            ELSE [ok |-> FALSE, error |-> q.error, command |-> QueryParserDefault]
    ELSE [ok |-> FALSE, error |-> "NotInSync", command |-> QueryParserDefault]

\* QueryParser::parse: the command is assigned only when query() succeeds.
parse(command, buffer, cluster, round_robin) ==
    IF buffer.query.some
    THEN LET q == query_result(buffer.query.value, cluster, buffer.params,
                               round_robin)
         IN IF q.ok THEN [ok |-> TRUE, error |-> "", command |-> q.value]
            ELSE [ok |-> FALSE, error |-> q.error, command |-> command]
    ELSE [ok |-> FALSE, error |-> "NotInSync", command |-> command]

\* ---------------------------------------------------------------- state
VARIABLES
    \* Client::spawn, per session
    pc,          \* where the session is: select, get, connecting, queued,
                 \* send, done (loop left by Terminate), failed (Err returned)
    cstate,      \* Client.state
    buf,         \* the Buffer local to the running Client::buffer future
    flush,       \* the local flush of Client::spawn
    guard,       \* Connection.server: the connection held, or NoConn
    pending,     \* the full buffer returned by Client::buffer, until sent
    unflushed,   \* messages written to the client stream and not yet flushed
    \* server connections
    conns,       \* ConnIds -> connection record
    \* Pool
    idle,        \* idle connections, most recently returned first
    checked_out, \* number of connections checked out
    waiters,     \* FIFO of sessions waiting for a connection
    woken,       \* waiters that were signalled
    banned,      \* the pool's Ban slot is set
    created,     \* connections opened so far
    closed,      \* connections discarded
    monitor,     \* the Monitor is opening a connection
    \* history
    nread,       \* messages read from each client
    sentLog,     \* per session: the client messages sent to a server, by seq
    fwdLog,      \* per session: the server messages forwarded, <<conn, n>>
    owed,        \* per session: Queries sent on the guard, no ReadyForQuery yet
    txn,         \* per session: the transaction window opened by BEGIN
    xread,       \* per session: Terminate was read
    xdrop,       \* per session: messages in the buffer when Terminate was read
    ioerr,       \* per session: an I/O step failed
    checkouts,   \* per session: checkouts started
    faults,      \* I/O failures and expired timers so far
    \* the clients
    kinds,       \* the messages the clients send
    left,        \* messages the clients may still send
    \* the connection of the server-level specification
    sv, ops,
    svlog,       \* the last operation on sv: its inputs and what it returned
    \* the components checked on their own
    sort_buffer, \* a SortBuffer: buffer and full
    sblog,       \* history of the SortBuffer: what was added, taken, sorted
    codec,       \* a message on its way through to_bytes and from_bytes
    router,      \* a statement on its way through the QueryParser
    config,      \* a pool Config and the answer of one of its methods
    setup        \* a Server::connect in progress: what was read, the result

sessVars == <<pc, cstate, buf, flush, guard, pending, unflushed>>
poolVars == <<idle, checked_out, waiters, woken, banned, created, closed, monitor>>
logVars == <<nread, sentLog, fwdLog, owed, txn, xread, xdrop, ioerr, checkouts>>
histVars == <<logVars, faults>>
libVars == <<sort_buffer, sblog, codec, router, config, setup>>
srvVars == <<sv, ops, svlog, libVars>>
envVars == <<kinds, left>>
vars == <<sessVars, conns, poolVars, histVars, envVars, srvVars>>

NoTxn == [open |-> FALSE, conn |-> NoConn, commit |-> 0]

\* The state after construction: the sessions in live have finished
\* Client::new, the pool is empty and its Monitor has not run yet.
InitWith(live, alphabet, n) ==
    /\ pc = [s \in Clients |-> IF s \in live THEN "select" ELSE "absent"]
    /\ kinds = alphabet
    /\ left = n
    /\ cstate = [s \in Clients |-> "Idle"]
    /\ buf = [s \in Clients |-> << >>]
    /\ flush = [s \in Clients |-> FALSE]
    /\ guard = [s \in Clients |-> NoConn]
    /\ pending = [s \in Clients |-> << >>]
    /\ unflushed = [s \in Clients |-> 0]
    /\ conns = [c \in ConnIds |-> NoStream]
    /\ idle = << >>
    /\ checked_out = 0
    /\ waiters = << >>
    /\ woken = {}
    /\ banned = FALSE
    /\ created = 0
    /\ closed = {}
    /\ monitor = FALSE
    /\ nread = [s \in Clients |-> 0]
    /\ sentLog = [s \in Clients |-> << >>]
    /\ fwdLog = [s \in Clients |-> << >>]
    /\ owed = [s \in Clients |-> {}]
    /\ txn = [s \in Clients |-> NoTxn]
    /\ xread = [s \in Clients |-> FALSE]
    /\ xdrop = [s \in Clients |-> 0]
    /\ ioerr = [s \in Clients |-> FALSE]
    /\ checkouts = [s \in Clients |-> 0]
    /\ faults = 0
    /\ sv = NewServer
    /\ ops = 0
    /\ svlog = NoOp

\* ------------------------------------------------------------------ Pool
\* Server::healthcheck
healthcheck(state, sendOk, replies) == execute(state, sendOk, replies)

\* The I/O outcomes of an execute: all well, the send fails, a read fails.
IoOutcomes == {"ok", "sendfail", "readfail"}

\* Server::healthcheck(query) on connection k over its stream: the Query
\* reaches the backend unless the send fails, and the replies are read off
\* the stream.
healthcheck_on(k, io) ==
    LET sendOk == io # "sendfail"
        q == [code |-> "Q", sql |-> "SELECT", seq |-> 0]
        k1 == IF in_sync(k.state) /\ sendOk THEN deliver(k, <<q>>, "pool") ELSE k
        e == healthcheck(k.state, sendOk,
                         IF io = "readfail" THEN <<IoError>> ELSE k1.out)
        n == IF io = "readfail" THEN 0 ELSE e.n
    IN [conn |-> [k1 EXCEPT !.state = e.state,
                            !.out = SubSeq(k1.out, n + 1, Len(k1.out))],
        ok |-> e.ok]

\* Pool release, the connection's part: a connection in a transaction is
\* rolled back (Server::rollback) before the pool decides what to do with it.
released(k, io) ==
    IF in_transaction(k.state)
    THEN LET sendOk == io # "sendfail"
             k1 == IF sendOk THEN deliver(k, <<RollbackQuery>>, "pool") ELSE k
             r == rollback(k.state, sendOk,
                           IF io = "readfail" THEN <<IoError>> ELSE k1.out)
             n == IF io = "readfail" THEN 0 ELSE r.n
         IN [k1 EXCEPT !.state = r.state,
                       !.out = SubSeq(k1.out, n + 1, Len(k1.out))]
    ELSE k

ReleaseIo(k) == IF in_transaction(k.state) THEN IoOutcomes ELSE {"ok"}

\* Pool release, the decision: a connection that is Error or Disconnected,
\* whose rollback failed, or that is past max_age is discarded.
discard(k, aged) == error(k.state) \/ k.state = "Disconnected" \/ aged

\* Pool release: the pool's part.
Release(c, k, io, aged) ==
    LET k2 == released(k, io) IN
    /\ conns' = [conns EXCEPT ![c] = k2]
    /\ checked_out' = checked_out - 1
    /\ IF discard(k2, aged)
       THEN /\ closed' = closed \cup {c}
            /\ UNCHANGED <<idle, waiters, woken>>
       ELSE /\ idle' = <<c>> \o idle
            /\ closed' = closed
            /\ IF waiters # << >>
               THEN /\ waiters' = Tail(waiters)
                    /\ woken' = woken \cup {Head(waiters)}
               ELSE UNCHANGED <<waiters, woken>>

Keep(c, k) ==
    /\ conns' = [conns EXCEPT ![c] = k]
    /\ UNCHANGED <<idle, checked_out, waiters, woken, closed>>

\* The number of I/O failures a step injects.
Fault(n) == faults + n <= MaxFaults /\ faults' = faults + n

\* ------------------------------------------------ Client::spawn (client.rs)
buffer_eager(b, m) ==
    IF m.code = "X" THEN [ready |-> TRUE, result |-> << >>, local |-> << >>]
    ELSE [ready |-> TRUE, result |-> Append(b, m), local |-> << >>]

buffer_pushes_terminate(b, m) ==
    LET b2 == Append(b, m) IN
    IF b2[Len(b2)].code \in {"Q", "S", "c", "H"}
    THEN [ready |-> TRUE, result |-> b2, local |-> << >>]
    ELSE [ready |-> FALSE, result |-> << >>, local |-> b2]

\* One turn of the loop of Client::buffer on local buffer b reading m:
\* Terminate returns an empty buffer, anything else is pushed, and the
\* buffer is returned once it is full.
buffer(b, m) ==
    IF m.code = "X" THEN [ready |-> TRUE, result |-> << >>, local |-> << >>]
    ELSE LET b2 == push(b, m) IN
         IF full(b2) THEN [ready |-> TRUE, result |-> b2, local |-> << >>]
         ELSE [ready |-> FALSE, result |-> << >>, local |-> b2]

forward_twice(log, m) == Append(Append(log, m), m)

\* The server branch writes the message to the client stream.
forward(log, m) == Append(log, m)

Fail_keeps_guard(s, k, io, aged) ==
    /\ pc' = [pc EXCEPT ![s] = "failed"]
    /\ UNCHANGED <<guard, conns, idle, checked_out, waiters, woken, closed>>

\* The error paths of Client::spawn: Err is returned and the Connection,
\* with the guard it holds, is dropped.
Fail(s, k, io, aged) ==
    /\ pc' = [pc EXCEPT ![s] = "failed"]
    /\ guard' = [guard EXCEPT ![s] = NoConn]
    /\ IF guard[s] = NoConn
       THEN UNCHANGED <<conns, idle, checked_out, waiters, woken, closed>>
       ELSE Release(guard[s], k, io, aged)

DropIo(s, k) == IF guard[s] = NoConn THEN {"ok"} ELSE ReleaseIo(k)
Bad(io) == IF io = "ok" THEN 0 ELSE 1
Old(aged) == IF aged THEN 1 ELSE 0
Aged(s) == IF guard[s] = NoConn THEN {FALSE} ELSE BOOLEAN
Held(s) == IF guard[s] = NoConn THEN NoStream ELSE conns[guard[s]]

Stamp(s, m) == [code |-> m.code, sql |-> m.sql, seq |-> nread[s] + 1]

\* The client branch, the buffer not yet full: the message is kept.
ClientBuffer(s, m) ==
    LET r == buffer(buf[s], Stamp(s, m)) IN
    /\ pc[s] = "select" /\ left > 0 /\ m \in kinds
    /\ ~r.ready
    /\ buf' = [buf EXCEPT ![s] = r.local]
    /\ nread' = [nread EXCEPT ![s] = @ + 1]
    /\ left' = left - 1
    /\ xread' = [xread EXCEPT ![s] = @ \/ m.code = "X"]
    /\ UNCHANGED <<pc, cstate, flush, guard, pending, unflushed, conns, poolVars,
                   sentLog, fwdLog, owed, txn, xdrop, ioerr, checkouts, faults,
                   kinds, srvVars>>

\* The client branch, Terminate: the loop is left and the guard dropped.
ClientTerminate(s, m) ==
    LET r == buffer(buf[s], Stamp(s, m)) IN
    /\ pc[s] = "select" /\ left > 0 /\ m \in kinds
    /\ r.ready /\ r.result = << >>
    /\ cstate' = [cstate EXCEPT ![s] = "Disconnected"]
    /\ pc' = [pc EXCEPT ![s] = "done"]
    /\ buf' = [buf EXCEPT ![s] = << >>]
    /\ guard' = [guard EXCEPT ![s] = NoConn]
    /\ nread' = [nread EXCEPT ![s] = @ + 1]
    /\ left' = left - 1
    /\ xread' = [xread EXCEPT ![s] = @ \/ m.code = "X"]
    /\ xdrop' = [xdrop EXCEPT ![s] = Len(buf[s])]
    /\ IF guard[s] = NoConn
       THEN /\ UNCHANGED <<conns, idle, checked_out, waiters, woken, closed>>
            /\ Fault(0)
       ELSE \E io \in ReleaseIo(Held(s)), aged \in BOOLEAN :
                /\ Release(guard[s], Held(s), io, aged)
                /\ Fault(Bad(io) + Old(aged))
    /\ UNCHANGED <<flush, pending, unflushed, banned, created, monitor,
                   sentLog, fwdLog, owed, txn, ioerr, checkouts, kinds, srvVars>>

\* The client branch, a full buffer: a checkout is started unless a guard
\* is held, and the buffer goes to the server.
ClientDispatch(s, m) ==
    LET r == buffer(buf[s], Stamp(s, m)) IN
    /\ pc[s] = "select" /\ left > 0 /\ m \in kinds
    /\ r.ready /\ r.result # << >>
    /\ buf' = [buf EXCEPT ![s] = << >>]
    /\ pending' = [pending EXCEPT ![s] = r.result]
    /\ flush' = [flush EXCEPT ![s] = buffer_flush(r.result)]
    /\ nread' = [nread EXCEPT ![s] = @ + 1]
    /\ left' = left - 1
    /\ xread' = [xread EXCEPT ![s] = @ \/ m.code = "X"]
    /\ IF guard[s] = NoConn
       THEN /\ cstate' = [cstate EXCEPT ![s] = "Waiting"]
            /\ pc' = [pc EXCEPT ![s] = "get"]
            /\ checkouts' = [checkouts EXCEPT ![s] = @ + 1]
       ELSE /\ pc' = [pc EXCEPT ![s] = "send"]
            /\ UNCHANGED <<cstate, checkouts>>
    /\ UNCHANGED <<guard, unflushed, conns, poolVars, sentLog, fwdLog, owed, txn,
                   xdrop, ioerr, faults, kinds, srvVars>>

\* Reading from the client fails.
ClientReadFail(s) ==
    /\ pc[s] = "select"
    /\ ioerr' = [ioerr EXCEPT ![s] = TRUE]
    /\ buf' = [buf EXCEPT ![s] = << >>]
    /\ \E io \in DropIo(s, Held(s)), aged \in Aged(s) :
           Fail(s, Held(s), io, aged) /\ Fault(1 + Bad(io) + Old(aged))
    /\ UNCHANGED <<cstate, flush, pending, unflushed, banned, created, monitor,
                   nread, sentLog, fwdLog, owed, txn, xread, xdrop, checkouts,
                   envVars, srvVars>>

\* What sending buffer b on connection c records for session s.
Seqs(b) == [i \in 1..Len(b) |-> b[i].seq]
Queries(b) == {b[i].seq : i \in {j \in 1..Len(b) : b[j].code = "Q"}}
Sql(b, q) == \E i \in 1..Len(b) : b[i].code = "Q" /\ b[i].sql = q
SeqOf(b, q) == CHOOSE n \in Queries(b) :
                   \E i \in 1..Len(b) : b[i].seq = n /\ b[i].sql = q

TxnAfterSend(t, c, b) ==
    IF ~t.open /\ Sql(b, "BEGIN")
    THEN [open |-> TRUE, conn |-> c, commit |-> 0]
    ELSE IF t.open /\ t.commit = 0 /\ Sql(b, "COMMIT")
         THEN [t EXCEPT !.commit = SeqOf(b, "COMMIT")]
         ELSE t

TxnAfterRead(t, s, c, m) ==
    IF t.open /\ m.code = "Z" /\ m.from = s /\ m.re = t.commit /\ c = t.conn
    THEN NoTxn ELSE t

\* server.send(buffer.into())
Send(s, ok) ==
    LET c == guard[s]
        k == conns[c]
        b == pending[s]
        k1 == [k EXCEPT !.state = send(k.state, ok)]
    IN
    /\ pc[s] = "send"
    /\ pending' = [pending EXCEPT ![s] = << >>]
    /\ IF ok
       THEN /\ Keep(c, deliver(k1, b, s))
            /\ pc' = [pc EXCEPT ![s] = "select"]
            /\ cstate' = [cstate EXCEPT ![s] = "Idle"]
            /\ sentLog' = [sentLog EXCEPT ![s] = @ \o Seqs(b)]
            /\ owed' = [owed EXCEPT ![s] = @ \cup Queries(b)]
            /\ txn' = [txn EXCEPT ![s] = TxnAfterSend(@, c, b)]
            /\ Fault(0)
            /\ UNCHANGED <<guard, ioerr>>
       ELSE /\ Fail(s, k1, "ok", FALSE)
            /\ Fault(1)
            /\ ioerr' = [ioerr EXCEPT ![s] = TRUE]
            /\ UNCHANGED <<cstate, sentLog, owed, txn>>
    /\ UNCHANGED <<buf, flush, unflushed, banned, created, monitor, nread,
                   fwdLog, xread, xdrop, checkouts, envVars, srvVars>>

\* ---------------------------------------------- Pool checkout (server.get)
Checking(s) == pc[s] = "get" \/ (pc[s] = "queued" /\ s \in woken)

Unqueue(s) ==
    /\ waiters' = SelectSeq(waiters, LAMBDA w : w # s)
    /\ woken' = woken \ {s}

\* 1. A banned pool refuses the checkout.
GetBanned(s) ==
    /\ Checking(s) /\ banned
    /\ Unqueue(s)
    /\ pc' = [pc EXCEPT ![s] = "failed"]
    /\ pending' = [pending EXCEPT ![s] = << >>]
    /\ UNCHANGED <<cstate, buf, flush, guard, unflushed, conns, idle,
                   checked_out, banned, created, closed, monitor, histVars,
                   envVars, srvVars>>

\* 2. An idle connection exists: the most recently returned one is taken.
GetIdle(s) ==
    /\ Checking(s) /\ ~banned /\ idle # << >>
    /\ Unqueue(s)
    /\ idle' = Tail(idle)
    /\ checked_out' = checked_out + 1
    /\ guard' = [guard EXCEPT ![s] = Head(idle)]
    /\ cstate' = [cstate EXCEPT ![s] = "Active"]
    /\ pc' = [pc EXCEPT ![s] = "send"]
    /\ owed' = [owed EXCEPT ![s] = {}]
    /\ UNCHANGED <<buf, flush, pending, unflushed, conns, banned, created,
                   closed, monitor, nread, sentLog, fwdLog, txn, xread, xdrop,
                   ioerr, checkouts, faults, envVars, srvVars>>

\* 3. No idle connection and room under max: the lock is released and a new
\* connection is opened.
GetSpawn(s) ==
    /\ Checking(s) /\ ~banned /\ idle = << >>
    /\ checked_out + Len(idle) < max
    /\ created + (IF monitor THEN 1 ELSE 0)
         + Cardinality({x \in Clients : pc[x] = "connecting"}) < MaxConns
    /\ Unqueue(s)
    /\ pc' = [pc EXCEPT ![s] = "connecting"]
    /\ UNCHANGED <<cstate, buf, flush, guard, pending, unflushed, conns, idle,
                   checked_out, banned, created, closed, monitor, histVars,
                   envVars, srvVars>>

\* 3, continued. Server::connect returned: the lock is taken again and the
\* connection registered as checked out; or the connect failed.
Connected(s, ok) ==
    LET c == created + 1 IN
    /\ pc[s] = "connecting"
    /\ IF ok
       THEN /\ created' = c
            /\ conns' = [conns EXCEPT ![c] = NewConn]
            /\ checked_out' = checked_out + 1
            /\ guard' = [guard EXCEPT ![s] = c]
            /\ cstate' = [cstate EXCEPT ![s] = "Active"]
            /\ pc' = [pc EXCEPT ![s] = "send"]
            /\ owed' = [owed EXCEPT ![s] = {}]
            /\ Fault(0)
            /\ UNCHANGED <<pending, ioerr>>
       ELSE /\ pc' = [pc EXCEPT ![s] = "failed"]
            /\ pending' = [pending EXCEPT ![s] = << >>]
            /\ ioerr' = [ioerr EXCEPT ![s] = TRUE]
            /\ Fault(1)
            /\ UNCHANGED <<created, conns, checked_out, guard, cstate, owed>>
    /\ UNCHANGED <<buf, flush, unflushed, idle, waiters, woken, banned, closed,
                   monitor, nread, sentLog, fwdLog, txn, xread, xdrop,
                   checkouts, envVars, srvVars>>

\* 4. Otherwise the caller is queued as a waiter.
GetWait(s) ==
    /\ Checking(s) /\ ~banned /\ idle = << >>
    /\ checked_out + Len(idle) >= max
    /\ waiters' = Append(SelectSeq(waiters, LAMBDA w : w # s), s)
    /\ woken' = woken \ {s}
    /\ pc' = [pc EXCEPT ![s] = "queued"]
    /\ UNCHANGED <<cstate, buf, flush, guard, pending, unflushed, conns, idle,
                   checked_out, banned, created, closed, monitor, histVars,
                   envVars, srvVars>>

\* 4, continued. checkout_timeout passes: CheckoutTimeout.
WaitTimeout(s) ==
    /\ Fault(1)
    /\ pc[s] = "queued"
    /\ Unqueue(s)
    /\ pc' = [pc EXCEPT ![s] = "failed"]
    /\ pending' = [pending EXCEPT ![s] = << >>]
    /\ UNCHANGED <<cstate, buf, flush, guard, unflushed, conns, idle,
                   checked_out, banned, created, closed, monitor, logVars,
                   envVars, srvVars>>

\* ------------------------------------------------------ the server branch
\* message = server.read(): the message is forwarded to the client, flushed
\* when it is ReadyForQuery or CopyInResponse or when the client asked for a
\* Flush; the guard is released when the server is done. The Client::buffer
\* future of this turn of the loop is dropped, and its local buffer with it.
ServerRead(s, wok) ==
    LET c == guard[s]
        k == conns[c]
        m == Head(k.out)
        k1 == [k EXCEPT !.state = read(k.state, m), !.out = Tail(k.out)]
        flushed == m.code \in {"Z", "G"} \/ flush[s]
    IN
    /\ pc[s] = "select" /\ c # NoConn /\ k.out # << >>
    /\ buf' = [buf EXCEPT ![s] = << >>]
    /\ IF ~read_ok(m)
       THEN /\ wok
            /\ Fail(s, k1, "ok", FALSE)
            /\ Fault(0)
            /\ UNCHANGED <<fwdLog, flush, unflushed, owed, txn, ioerr>>
       ELSE /\ owed' = [owed EXCEPT ![s] =
                           IF m.code = "Z" /\ m.from = s THEN @ \ {m.re} ELSE @]
            /\ txn' = [txn EXCEPT ![s] = TxnAfterRead(@, s, c, m)]
            /\ IF ~wok
               THEN /\ \E io \in ReleaseIo(k1), aged \in BOOLEAN :
                           Fail(s, k1, io, aged)
                           /\ Fault(1 + Bad(io) + Old(aged))
                    /\ ioerr' = [ioerr EXCEPT ![s] = TRUE]
                    /\ UNCHANGED <<fwdLog, flush, unflushed>>
               ELSE /\ fwdLog' = [fwdLog EXCEPT ![s] = forward(@, <<c, m.n>>)]
                    /\ flush' = [flush EXCEPT ![s] = IF flushed THEN FALSE ELSE @]
                    /\ unflushed' = [unflushed EXCEPT ![s] =
                                        IF flushed THEN 0 ELSE @ + 1]
                    /\ IF done(k1.state)
                       THEN /\ \E aged \in BOOLEAN :
                                   Release(c, k1, "ok", aged) /\ Fault(Old(aged))
                            /\ guard' = [guard EXCEPT ![s] = NoConn]
                       ELSE Keep(c, k1) /\ UNCHANGED guard /\ Fault(0)
                    /\ UNCHANGED <<pc, ioerr>>
    /\ UNCHANGED <<cstate, pending, banned, created, monitor, nread, sentLog,
                   xread, xdrop, checkouts, envVars, srvVars>>

\* server.read() fails.
ServerReadFail(s) ==
    LET c == guard[s]
        k1 == [conns[c] EXCEPT !.state = read(@, IoError)]
    IN
    /\ pc[s] = "select" /\ c # NoConn
    /\ buf' = [buf EXCEPT ![s] = << >>]
    /\ ioerr' = [ioerr EXCEPT ![s] = TRUE]
    /\ Fail(s, k1, "ok", FALSE)
    /\ Fault(1)
    /\ UNCHANGED <<cstate, flush, pending, unflushed, banned, created, monitor,
                   nread, sentLog, fwdLog, owed, txn, xread, xdrop, checkouts,
                   envVars, srvVars>>

\* ---------------------------------------------------------------- Monitor
\* Evict an idle connection past idle_timeout or max_age, preserving min.
MonitorEvict(c) ==
    /\ Fault(1)
    /\ \E i \in 1..Len(idle) : idle[i] = c
    /\ Len(idle) + checked_out > min
    /\ idle' = SelectSeq(idle, LAMBDA x : x # c)
    /\ closed' = closed \cup {c}
    /\ UNCHANGED <<sessVars, conns, checked_out, waiters, woken, banned,
                   created, monitor, logVars, envVars, srvVars>>

\* Health-check an idle connection; a failed check bans the pool and
\* discards the connection.
MonitorHealthcheck(c, io) ==
    LET h == healthcheck_on(conns[c], io) IN
    /\ \E i \in 1..Len(idle) : idle[i] = c
    /\ Fault(1)
    /\ conns' = [conns EXCEPT ![c] = h.conn]
    /\ IF h.ok
       THEN UNCHANGED <<idle, closed, banned>>
       ELSE /\ idle' = SelectSeq(idle, LAMBDA x : x # c)
            /\ closed' = closed \cup {c}
            /\ banned' = TRUE
    /\ UNCHANGED <<sessVars, checked_out, waiters, woken, created, monitor,
                   nread, sentLog, fwdLog, owed, txn, xread, xdrop, ioerr,
                   checkouts, envVars, srvVars>>

\* Refill up to min: the Monitor opens a connection, the lock released.
MonitorSpawn ==
    /\ ~monitor
    /\ Len(idle) + checked_out < min
    /\ created + Cardinality({x \in Clients : pc[x] = "connecting"}) < MaxConns
    /\ monitor' = TRUE
    /\ UNCHANGED <<sessVars, conns, idle, checked_out, waiters, woken, banned,
                   created, closed, histVars, envVars, srvVars>>

\* The Monitor's connection is open and joins the idle set, or failed.
MonitorConnected(ok) ==
    LET c == created + 1 IN
    /\ monitor
    /\ monitor' = FALSE
    /\ Fault(IF ok THEN 0 ELSE 1)
    /\ IF ok
       THEN /\ created' = c
            /\ conns' = [conns EXCEPT ![c] = NewConn]
            /\ idle' = <<c>> \o idle
            /\ IF waiters # << >>
               THEN /\ waiters' = Tail(waiters)
                    /\ woken' = woken \cup {Head(waiters)}
               ELSE UNCHANGED <<waiters, woken>>
       ELSE UNCHANGED <<created, conns, idle, waiters, woken>>
    /\ UNCHANGED <<sessVars, checked_out, banned, closed, nread, sentLog,
                   fwdLog, owed, txn, xread, xdrop, ioerr, checkouts, envVars, srvVars>>

\* The ban's ttl passes.
BanExpire ==
    /\ banned
    /\ banned' = FALSE
    /\ UNCHANGED <<sessVars, conns, idle, checked_out, waiters, woken, created,
                   closed, monitor, histVars, envVars, srvVars>>

\* The steps of the client sessions, checkout and release included.
NextClient ==
    \/ \E s \in Clients, m \in ClientMessages : ClientBuffer(s, m)
    \/ \E s \in Clients, m \in ClientMessages : ClientTerminate(s, m)
    \/ \E s \in Clients, m \in ClientMessages : ClientDispatch(s, m)
    \/ \E s \in Clients : ClientReadFail(s)
    \/ \E s \in Clients, ok \in BOOLEAN : Send(s, ok)
    \/ \E s \in Clients : GetIdle(s)
    \/ \E s \in Clients : GetSpawn(s)
    \/ \E s \in Clients, ok \in BOOLEAN : Connected(s, ok)
    \/ \E s \in Clients, wok \in BOOLEAN : ServerRead(s, wok)
    \/ \E s \in Clients : ServerReadFail(s)

\* The steps of the pool's Monitor, and what a ban does to a checkout.
NextMonitor ==
    \/ \E c \in ConnIds : MonitorEvict(c)
    \/ \E c \in ConnIds, io \in IoOutcomes : MonitorHealthcheck(c, io)
    \/ MonitorSpawn
    \/ \E ok \in BOOLEAN : MonitorConnected(ok)
    \/ BanExpire
    \/ \E s \in Clients : GetBanned(s)

\* The steps of a checkout that finds the pool at capacity.
NextWait ==
    \/ \E s \in Clients : GetWait(s)
    \/ \E s \in Clients : WaitTimeout(s)

\* ------------------------------------------- the SortBuffer on its own
\* The session and the pool stand still while a component is exercised.
ProxyIdle ==
    UNCHANGED <<sessVars, conns, poolVars, histVars, envVars, sv, ops, svlog>>

NoTake == [some |-> FALSE, message |-> << >>]
NewSortLog == [added |-> << >>, taken |-> << >>, op |-> "-", last |-> NoTake,
               columns |-> << >>, rd |-> << >>, before |-> << >>,
               panicked |-> FALSE]
NoCodec == [stage |-> "-"]
NoRouter == [stage |-> "-"]
NoConfig == [stage |-> "-"]
NoSetup == [stage |-> "-"]

InitLib ==
    /\ sort_buffer = NewSortBuffer /\ sblog = NewSortLog
    /\ codec = NoCodec /\ router = NoRouter /\ config = NoConfig /\ setup = NoSetup

\* The DataRows the shards send: two columns, the second one nullable.
Digits == {<<49>>, <<50>>}
Rows == {<<Data(x), y>> : x \in Digits, y \in {Data(d) : d \in Digits} \cup {Null}}

\* The row description (a name may repeat) and the ORDER BY clauses of the
\* statements.
RowDescriptions ==
    {<<[name |-> "a"], [name |-> "b"], [name |-> "b"]>>}
OrderBy(k, c, n) == [kind |-> k, column |-> c, name |-> n]
OrderBys ==
    {OrderBy(k, c, "") : k \in {"Asc", "Desc"}, c \in {1, 2, 3}}
    \cup {OrderBy(k, 0, n) : k \in {"AscColumn", "DescColumn"}, n \in {"a", "b", "z"}}
Clauses ==
    {<< >>} \cup {<<c>> : c \in OrderBys}
    \cup {<<c, d>> :
            c \in {OrderBy("Asc", 1, ""), OrderBy("Desc", 1, ""),
                   OrderBy("AscColumn", 0, "a"), OrderBy("DescColumn", 0, "z")},
            d \in {OrderBy("Asc", 2, ""), OrderBy("Desc", 2, ""),
                   OrderBy("DescColumn", 0, "b"), OrderBy("Asc", 3, "")}}

\* The history keeps the arguments of a sort until the next operation.
Forget(l) == [l EXCEPT !.columns = << >>, !.rd = << >>, !.before = << >>]

SbAdd(row) ==
    LET r == sort_buffer_add(sort_buffer, wire_data_row(row)) IN
    /\ ~sblog.panicked /\ Len(sblog.added) < MaxRows
    /\ sort_buffer' = r.sb
    /\ sblog' = [Forget(sblog) EXCEPT !.added = Append(@, wire_data_row(row)),
                              !.op = "add",
                              !.panicked = r.error = "panic"]
    /\ ProxyIdle /\ UNCHANGED <<codec, router, config, setup>>

SbFull ==
    /\ ~sblog.panicked
    /\ sort_buffer' = sort_buffer_full(sort_buffer)
    /\ sblog' = [Forget(sblog) EXCEPT !.op = "full"]
    /\ ProxyIdle /\ UNCHANGED <<codec, router, config, setup>>

SbSort(columns, rd) ==
    /\ ~sblog.panicked
    /\ sort_buffer' = sort_buffer_sort(sort_buffer, columns, rd)
    /\ sblog' = [sblog EXCEPT !.op = "sort", !.columns = columns, !.rd = rd,
                              !.before = sort_buffer.buffer]
    /\ ProxyIdle /\ UNCHANGED <<codec, router, config, setup>>

SbTake ==
    LET r == sort_buffer_take(sort_buffer) IN
    /\ ~sblog.panicked
    /\ sort_buffer' = r.sb
    /\ sblog' = [Forget(sblog) EXCEPT !.op = "take",
                              !.last = [some |-> r.some, message |-> r.message],
                              !.taken = IF r.some THEN Append(@, r.message) ELSE @]
    /\ ProxyIdle /\ UNCHANGED <<codec, router, config, setup>>

NextSort ==
    \/ \E row \in Rows : SbAdd(row)
    \/ SbFull
    \/ \E columns \in Clauses, rd \in RowDescriptions : SbSort(columns, rd)
    \/ SbTake

\* The rows the comparator meets: one or two columns, each a number or
\* empty, decoded from the DataRow the shard sent.
ComparedColumns == {Data(<<49>>), Data(<<50>>), Data(<< >>)}
ComparedRows ==
    {data_row_from_bytes(wire_data_row(r)).value :
        r \in {<<x>> : x \in ComparedColumns}
              \cup {<<x, y>> : x \in ComparedColumns, y \in ComparedColumns}}

\* The closure order_by applied to every pair of buffered rows.
SbCompare(columns, rd) ==
    /\ sblog.op = "-"
    /\ sblog' = [op |-> "compare", columns |-> columns, rd |-> rd,
                 cmp |-> [i \in 1..Len(sort_buffer.buffer) |->
                            [k \in 1..Len(sort_buffer.buffer) |->
                               order_by(sort_buffer.buffer[i],
                                        sort_buffer.buffer[k],
                                        sort_cols(columns, rd), rd, 1)]]]
    /\ ProxyIdle /\ UNCHANGED <<sort_buffer, codec, router, config, setup>>

NextCompare == \E columns \in Clauses, rd \in RowDescriptions : SbCompare(columns, rd)

\* ------------------------------------------------- the messages on their own
SeqsUpTo(S, n) == UNION {[1..k -> S] : k \in 0..n}

\* ASCII strings without a NUL: "", "a", "ab".
Strings == {<< >>, <<97>>, <<97, 98>>}

DataRows == {[columns |-> c] : c \in SeqsUpTo(Strings, MaxColumns)}

Fields == UNION {{numeric(s), text(s), bool(s)} : s \in {<< >>, <<97>>}}
RowDescriptionMessages == {[fields |-> f] : f \in SeqsUpTo(Fields, MaxFields)}

Parses == {[name |-> n, query |-> q, data_types |-> d] :
             n \in {<< >>, <<115>>}, q \in {<< >>, <<113>>},
             d \in SeqsUpTo({0, 23}, MaxTypes)}

Passwords ==
    {[variant |-> "SASLInitialResponse", name |-> n, response |-> r] :
        n \in {<< >>, <<83>>}, r \in Strings}
    \cup {[variant |-> "SASLResponse", response |-> r] : r \in Strings}

\* The DataRows a server sends, with NULL columns among them.
ServerColumns == {Null, Data(<< >>), Data(<<49>>)}
ServerRows == SeqsUpTo(ServerColumns, MaxColumns)

\* The row descriptions two shards send for one query: name and type differ,
\* and so does a field that is not compared.
ComparedFields ==
    {numeric(<<97>>), text(<<97>>), text(<<98>>),
     [text(<<97>>) EXCEPT !.table_oid = 1]}
ComparedDescriptions ==
    {[fields |-> f] : f \in SeqsUpTo(ComparedFields, MaxFields)}

CodecInputs ==
    {[stage |-> "message", kind |-> "DataRow", m |-> m] : m \in DataRows}
    \cup {[stage |-> "message", kind |-> "RowDescription", m |-> m] :
            m \in RowDescriptionMessages}
    \cup {[stage |-> "message", kind |-> "Parse", m |-> m] : m \in Parses}
    \cup {[stage |-> "message", kind |-> "Password", m |-> m] : m \in Passwords}
    \cup {[stage |-> "bytes", kind |-> "DataRow", from |-> "server", m |-> c,
           bytes |-> wire_data_row(c)] : c \in ServerRows}
    \cup {[stage |-> "pair", a |-> a, b |-> b] :
            a \in ComparedDescriptions, b \in ComparedDescriptions}

to_bytes(kind, m) ==
    CASE kind = "DataRow" -> data_row_to_bytes(m)
      [] kind = "RowDescription" -> row_description_to_bytes(m)
      [] kind = "Parse" -> parse_to_bytes(m)
      [] kind = "Password" -> password_to_bytes(m)

from_bytes(kind, b) ==
    CASE kind = "DataRow" -> data_row_from_bytes(b)
      [] kind = "RowDescription" -> row_description_from_bytes(b)
      [] kind = "Parse" -> parse_from_bytes(b)
      [] kind = "Password" -> password_from_bytes(b)

LibIdle == ProxyIdle /\ UNCHANGED <<sort_buffer, sblog, config, setup>>

ToBytes ==
    /\ codec.stage = "message"
    /\ codec' = [stage |-> "bytes", kind |-> codec.kind, from |-> "to_bytes",
                 m |-> codec.m, bytes |-> to_bytes(codec.kind, codec.m)]
    /\ LibIdle /\ UNCHANGED router

FromBytes ==
    /\ codec.stage = "bytes"
    /\ codec' = [stage |-> "decoded", kind |-> codec.kind, from |-> codec.from,
                 m |-> codec.m, bytes |-> codec.bytes,
                 back |-> from_bytes(codec.kind, codec.bytes)]
    /\ LibIdle /\ UNCHANGED router

Equivalent ==
    /\ codec.stage = "pair"
    /\ codec' = [stage |-> "compared", a |-> codec.a, b |-> codec.b,
                 result |-> equivalent(codec.a, codec.b)]
    /\ LibIdle /\ UNCHANGED router

NextMessages == ToBytes \/ FromBytes \/ Equivalent

\* ------------------------------------------- the pool Config on its own
\* Timeouts in milliseconds, the defaults of Config::default among them.
Millis == {0, 5000, 60000}

Configs ==
    {[min |-> min, max |-> max, checkout_timeout |-> a, idle_timeout |-> b,
      connect_timeout |-> c, max_age |-> d] :
        a \in Millis, b \in Millis, c \in Millis, d \in Millis}

ConfigConnectTimeout ==
    /\ config.stage = "config"
    /\ config' = [stage |-> "called", config |-> config.config,
                  method |-> "connect_timeout",
                  result |-> connect_timeout(config.config)]
    /\ ProxyIdle /\ UNCHANGED <<sort_buffer, sblog, codec, router, setup>>

ConfigCheckoutTimeout ==
    /\ config.stage = "config"
    /\ config' = [stage |-> "called", config |-> config.config,
                  method |-> "checkout_timeout",
                  result |-> checkout_timeout(config.config)]
    /\ ProxyIdle /\ UNCHANGED <<sort_buffer, sblog, codec, router, setup>>

ConfigIdleTimeout ==
    /\ config.stage = "config"
    /\ config' = [stage |-> "called", config |-> config.config,
                  method |-> "idle_timeout",
                  result |-> idle_timeout(config.config)]
    /\ ProxyIdle /\ UNCHANGED <<sort_buffer, sblog, codec, router, setup>>

ConfigMaxAge ==
    /\ config.stage = "config"
    /\ config' = [stage |-> "called", config |-> config.config,
                  method |-> "max_age",
                  result |-> max_age(config.config)]
    /\ ProxyIdle /\ UNCHANGED <<sort_buffer, sblog, codec, router, setup>>

NextConfig ==
    \/ ConfigConnectTimeout \/ ConfigCheckoutTimeout
    \/ ConfigIdleTimeout \/ ConfigMaxAge

\* ------------------------------------------------- Server::connect alone
\* What the server may send during the setup, by tag; an Authentication
\* message is AuthenticationOk or a request this client cannot answer.
SetupMessages ==
    {[code |-> "E", auth |-> "-"], [code |-> "R", auth |-> "Ok"],
     [code |-> "R", auth |-> "Password"], [code |-> "S", auth |-> "-"],
     [code |-> "K", auth |-> "-"], [code |-> "Z", auth |-> "-"],
     [code |-> "N", auth |-> "-"]}

ConnectStart == [stage |-> "startup", read |-> << >>, key_data |-> FALSE,
                 params |-> 0, result |-> "-", code |-> "-", state |-> "-"]

ConnectErr(s, m, err, code) ==
    [s EXCEPT !.stage = "done", !.read = Append(@, m),
              !.result = err, !.code = code]

\* The authentication loop, one message read.
connect_auth(s, m) ==
    IF m = IoError THEN ConnectErr(s, m, "Io", "-")
    ELSE CASE m.code = "E" -> ConnectErr(s, m, "ConnectionError", "E")
           [] m.code = "R" ->
                IF m.auth = "Ok"
                THEN [s EXCEPT !.stage = "params", !.read = Append(@, m)]
                ELSE ConnectErr(s, m, "Authentication", "-")
           [] OTHER -> ConnectErr(s, m, "UnexpectedMessage", m.code)

\* The loop after AuthenticationOk, one message read.
connect_params(s, m) ==
    IF m = IoError THEN ConnectErr(s, m, "Io", "-")
    ELSE CASE m.code = "Z" ->
                IF s.key_data
                THEN [s EXCEPT !.stage = "done", !.read = Append(@, m),
                               !.result = "Ok", !.state = NewServer.state]
                ELSE ConnectErr(s, m, "NoBackendKeyData", "-")
           [] m.code = "S" ->
                [s EXCEPT !.read = Append(@, m), !.params = @ + 1]
           [] m.code = "K" ->
                [s EXCEPT !.read = Append(@, m), !.key_data = TRUE]
           [] OTHER -> ConnectErr(s, m, "UnexpectedMessage", m.code)

ConnectIdle == ProxyIdle /\ UNCHANGED <<sort_buffer, sblog, codec, router, config>>

\* stream.write_all(Startup) and flush
ConnectStartup(ok) ==
    /\ setup.stage = "startup"
    /\ setup' = IF ok THEN [setup EXCEPT !.stage = "auth"]
                ELSE [setup EXCEPT !.stage = "done", !.result = "Io"]
    /\ ConnectIdle

ConnectAuth(m) ==
    /\ setup.stage = "auth"
    /\ Len(setup.read) < MaxSetup
    /\ setup' = connect_auth(setup, m)
    /\ ConnectIdle

ConnectParams(m) ==
    /\ setup.stage = "params"
    /\ Len(setup.read) < MaxSetup
    /\ setup' = connect_params(setup, m)
    /\ ConnectIdle

NextConnect ==
    \/ \E ok \in BOOLEAN : ConnectStartup(ok)
    \/ \E m \in SetupMessages \cup {IoError} : ConnectAuth(m)
    \/ \E m \in SetupMessages \cup {IoError} : ConnectParams(m)

\* ------------------------------------------------ the router on its own
Clusters ==
    {[shards |-> n, read_only |-> ro, write_only |-> wo] :
        n \in 1..MaxShards, ro \in BOOLEAN, wo \in BOOLEAN} \
    {c \in [shards : 1..MaxShards, read_only : BOOLEAN, write_only : BOOLEAN] :
        c.read_only /\ c.write_only}

Comments == {None} \cup {Some(n) : n \in 0..MaxShards}

Number(n) == [number |-> TRUE, value |-> n]
NotNumber == [number |-> FALSE, value |-> 0]

\* WhereClause::keys: the placeholder $n is the key Parameter(n - 1).
Placeholder(n) == [key |-> "Parameter", value |-> NotNumber, param |-> n - 1]

\* Equality keys on the sharding column: constants and the placeholders $1
\* and $2.
Keys ==
    {[key |-> "Constant", value |-> v, param |-> 0] :
        v \in {Number(0), Number(1), Number(MaxShards), NotNumber}}
    \cup {Placeholder(1), Placeholder(2)}

KeySets == {k \in SUBSET Keys : Cardinality(k) <= 2}

Binds ==
    {None, Some(<<[format |-> "text", value |-> Number(1)]>>),
     Some(<<[format |-> "binary", value |-> Number(1)]>>),
     Some(<<[format |-> "text", value |-> Number(0)],
            [format |-> "text", value |-> Number(1)]>>),
     Some(<<[format |-> "text", value |-> Number(1)],
            [format |-> "binary", value |-> Number(0)]>>),
     Some(<<[format |-> "text", value |-> NotNumber]>>)}

\* SortBy nodes: the expression sorted by and SortByDir (0 undefined,
\* 1 default, 2 ASC, 3 DESC, 4 USING).
SortBy(node, val, ival, field, sval, dir) ==
    [node |-> node, val |-> val, ival |-> ival, field |-> field,
     sval |-> sval, sortby_dir |-> dir]

SortClauses ==
    {<< >>,
     <<SortBy("AConst", "Ival", 1, "-", "", 0),
       SortBy("ColumnRef", "-", 0, "String", "a", 3)>>}

SortDirs == 0..4

\* A position, a string constant, a column, a star, a function call, and a
\* SortBy without an expression.
SortNodes ==
    {SortBy("AConst", "Ival", 2, "-", "", d) : d \in SortDirs}
    \cup {SortBy("AConst", "Sval", 0, "-", "x", d) : d \in SortDirs}
    \cup {SortBy("ColumnRef", "-", 0, "String", "b", d) : d \in SortDirs}
    \cup {SortBy("ColumnRef", "-", 0, "AStar", "", d) : d \in SortDirs}
    \cup {SortBy("FuncCall", "-", 0, "-", "", d) : d \in SortDirs}
    \cup {SortBy("None", "-", 0, "-", "", d) : d \in SortDirs}

SortLists ==
    {<<c>> : c \in SortNodes}
    \cup {<<c, d>> : c \in SortNodes,
                     d \in {SortBy("AConst", "Ival", 1, "-", "", 3),
                            SortBy("ColumnRef", "-", 0, "String", "a", 4),
                            SortBy("ColumnRef", "-", 0, "String", "a", 1),
                            SortBy("FuncCall", "-", 0, "-", "", 2)}}

Statement(node, kind) ==
    [node |-> node, kind |-> kind, tables |-> TRUE, keys |-> {},
     sort_clause |-> << >>, sharded |-> FALSE, comment |-> None]

Selects ==
    {[Statement("SelectStmt", "") EXCEPT !.tables = FALSE]}
    \cup {[Statement("SelectStmt", "") EXCEPT !.keys = k, !.sort_clause = s] :
            k \in KeySets, s \in SortClauses}

Others ==
    {Statement(n, "") :
        n \in {"InsertStmt", "UpdateStmt", "DeleteStmt", "CreateStmt"}}
    \cup {[Statement("CopyStmt", "") EXCEPT !.sharded = s] : s \in BOOLEAN}
    \cup {Statement("TransactionStmt", k) :
            k \in {"TransStmtBegin", "TransStmtStart", "TransStmtCommit",
                   "TransStmtRollback", "TransStmtSavepoint"}}

Statements ==
    {[s EXCEPT !.comment = c] : s \in Selects \cup Others, c \in Comments}

SortedSelects ==
    {[Statement("SelectStmt", "") EXCEPT !.sort_clause = s, !.comment = c] :
        s \in SortLists, c \in {None, Some(0)}}

RouterInputs ==
    {[stage |-> "buffer", stmt |-> s, cluster |-> c, params |-> p,
      round_robin |-> n] :
        s \in {x \in Statements : x.node = "SelectStmt" /\ x.tables},
        c \in Clusters, p \in Binds, n \in {0}}
    \cup {[stage |-> "buffer", stmt |-> s, cluster |-> c, params |-> None,
           round_robin |-> 0] : s \in SortedSelects, c \in Clusters}
    \cup {[stage |-> "buffer", stmt |-> s, cluster |-> c, params |-> None,
           round_robin |-> n] :
            s \in {x \in Statements : x.node # "SelectStmt" \/ ~x.tables},
            c \in Clusters, n \in 0..MaxShards}

\* QueryParser::parse: the command of the statement in the buffer is kept.
QueryParserParse ==
    /\ router.stage = "buffer"
    /\ router' = [stage |-> "parsed", stmt |-> router.stmt,
                  cluster |-> router.cluster, params |-> router.params,
                  round_robin |-> router.round_robin,
                  command |-> query(router.stmt, router.cluster, router.params,
                                    router.round_robin)]
    /\ ProxyIdle /\ UNCHANGED <<sort_buffer, sblog, codec, config, setup>>

\* QueryParser::route: the route of the command kept.
QueryParserRoute ==
    /\ router.stage = "parsed"
    /\ router' = [stage |-> "routed", stmt |-> router.stmt,
                  cluster |-> router.cluster, params |-> router.params,
                  round_robin |-> router.round_robin,
                  command |-> router.command,
                  route |-> route(router.command)]
    /\ ProxyIdle /\ UNCHANGED <<sort_buffer, sblog, codec, config, setup>>

NextRouter == QueryParserParse \/ QueryParserRoute

\* ------------------------------------------------------- Value on its own
\* A usize of 64 bits as carry * 2^64 + low, with low below zero when the
\* carry is set: the values an i32 can be cast to, and one less.
as_usize(n) == [carry |-> IF n < 0 THEN 1 ELSE 0, low |-> n]

\* index - 1 on usize: with overflow checks (debug) a subtraction from zero
\* panics, without them (release) it wraps to 2^64 - 1.
sub_one(u, checks) ==
    IF u.carry = 0 /\ u.low = 0
    THEN IF checks THEN [panic |-> TRUE, index |-> u]
         ELSE [panic |-> FALSE, index |-> [carry |-> 1, low |-> 0 - 1]]
    ELSE [panic |-> FALSE, index |-> [u EXCEPT !.low = @ - 1]]

\* Bind::parameter(index), then Parameter::text.
bind_parameter(bind, index) ==
    IF index.carry = 0 THEN bind_parameter_text(bind, index.low) ELSE None

shard_int(v, shards) == v % shards

\* Value::shard
value_shard(value, shards) ==
    CASE value.kind = "String" -> shard_str(value.text, shards)
      [] value.kind = "Integer" -> Some(shard_int(value.integer, shards))
      [] OTHER -> None

\* Value::shard_placeholder
value_shard_placeholder(value, bind, shards, checks) ==
    IF value.kind = "Placeholder"
    THEN LET i == sub_one(as_usize(value.placeholder), checks) IN
         IF i.panic THEN [panic |-> TRUE, wrapped |-> FALSE, shard |-> None]
         ELSE LET text_ == bind_parameter(bind, i.index) IN
              [panic |-> FALSE, wrapped |-> i.index.carry = 1,
               shard |-> IF text_.some THEN shard_str(text_.value, shards)
                         ELSE None]
    ELSE [panic |-> FALSE, wrapped |-> FALSE, shard |-> value_shard(value, shards)]

Value(kind, text_, integer, placeholder) ==
    [kind |-> kind, text |-> text_, integer |-> integer,
     placeholder |-> placeholder]

\* A ParamRef number close to i32::MIN.
LowI32 == 0 - 2147483647

Values ==
    {Value("String", s, 0, 0) : s \in {Number(1), Number(MaxShards), NotNumber}}
    \cup {Value("Integer", NotNumber, i, 0) : i \in {0 - 1, 0, 1, MaxShards + 1}}
    \cup {Value("Boolean", NotNumber, 0, 0), Value("Null", NotNumber, 0, 0)}
    \cup {Value("Placeholder", NotNumber, 0, n) : n \in {LowI32, 0 - 1, 0, 1, 2, 3}}

ValueInputs ==
    {[stage |-> "value", value |-> v, bind |-> b.value, shards |-> n,
      overflow_checks |-> c] :
        v \in Values, b \in Binds \ {None}, n \in 1..MaxShards, c \in BOOLEAN}

ValueShardPlaceholder ==
    /\ router.stage = "value"
    /\ router' = [router EXCEPT !.stage = "shard_placeholder"] @@
                 [result |-> value_shard_placeholder(router.value, router.bind,
                                 router.shards, router.overflow_checks)]
    /\ ProxyIdle /\ UNCHANGED <<sort_buffer, sblog, codec, config, setup>>

ValueShard ==
    /\ router.stage = "value"
    /\ router' = [router EXCEPT !.stage = "shard"] @@
                 [result |-> [panic |-> FALSE, wrapped |-> FALSE,
                              shard |-> value_shard(router.value, router.shards)]]
    /\ ProxyIdle /\ UNCHANGED <<sort_buffer, sblog, codec, config, setup>>

NextValue == ValueShardPlaceholder \/ ValueShard

\* ------------------------------------------- one Router over many calls
SessionStatements ==
    {[Statement("SelectStmt", "") EXCEPT !.tables = FALSE],
     [Statement("SelectStmt", "") EXCEPT !.tables = FALSE, !.comment = Some(0)],
     [Statement("SelectStmt", "") EXCEPT
         !.keys = {[key |-> "Constant", value |-> Number(1), param |-> 0]}],
     Statement("InsertStmt", ""),
     Statement("TransactionStmt", "TransStmtBegin"),
     Statement("Invalid", ""), Statement("Empty", "")}

\* Buffer::query and Buffer::parameters: a buffer with or without a statement.
Buffers ==
    {[query |-> None, params |-> None]}
    \cup {[query |-> Some(s), params |-> None] : s \in SessionStatements}

NoCall == [call |-> "-", ok |-> TRUE, error |-> "",
           buffer |-> [query |-> None, params |-> None], round_robin |-> 0]

NewRouter(cluster) ==
    [stage |-> "session", cluster |-> cluster, command |-> QueryParserDefault,
     round_robin |-> 0, calls |-> 0, last |-> NoCall,
     before |-> QueryParserDefault, routed |-> route_default,
     picked |-> None, previous |-> None]

\* Router::query
RouterQuery(b) ==
    LET r == parse(router.command, b, router.cluster, router.round_robin)
        next == r.ok /\ calls_next(b.query.value, router.cluster)
    IN /\ router.stage = "session" /\ router.calls < MaxCalls
       /\ router' = [router EXCEPT
              !.command = r.command,
              !.before = router.command,
              !.calls = @ + 1,
              !.round_robin = IF next THEN @ + 1 ELSE @,
              !.last = [call |-> "query", ok |-> r.ok, error |-> r.error,
                        buffer |-> b, round_robin |-> router.round_robin],
              !.previous = router.picked,
              !.picked = IF next THEN Some(r.command.route.shard) ELSE @]
       /\ ProxyIdle /\ UNCHANGED <<sort_buffer, sblog, codec, config, setup>>

\* Router::route
RouterRoute ==
    /\ router.stage = "session" /\ router.last.call = "query"
    /\ router' = [router EXCEPT !.last.call = "route",
                                !.routed = route(router.command)]
    /\ ProxyIdle /\ UNCHANGED <<sort_buffer, sblog, codec, config, setup>>

NextSession == (\E b \in Buffers : RouterQuery(b)) \/ RouterRoute

\* ------------------------------------- the operations of one Server
SvIdle == UNCHANGED <<sessVars, conns, poolVars, histVars, envVars, libVars>>

SvSend(ok) ==
    /\ ops < MaxOps /\ ops' = ops + 1
    /\ sv' = [sv EXCEPT !.state = send(sv.state, ok),
                        !.sent = IF ok THEN @ + 1 ELSE @,
                        !.result = IF ok THEN "Ok" ELSE "Io"]
    /\ svlog' = [NoOp EXCEPT !.op = "send", !.ok = ok, !.before = sv]
    /\ SvIdle

SvFlush(ok) ==
    /\ ops < MaxOps /\ ops' = ops + 1
    /\ sv' = [sv EXCEPT !.state = server_flush(sv.state, ok),
                        !.result = IF ok THEN "Ok" ELSE "Io"]
    /\ svlog' = [NoOp EXCEPT !.op = "flush", !.ok = ok, !.before = sv]
    /\ SvIdle

SvRead(r) ==
    /\ ops < MaxOps /\ ops' = ops + 1
    /\ sv' = server_read(sv, r)
    /\ svlog' = [NoOp EXCEPT !.op = "read", !.reads = <<r>>, !.before = sv,
                             !.returned = IF read_ok(r) THEN <<r>> ELSE << >>,
                             !.status = read_error(r).status]
    /\ SvIdle

SvExecute(sendOk, replies) ==
    /\ ops < MaxOps /\ ops' = ops + 1
    /\ Complete(replies)
    /\ sv' = server_execute(sv, sendOk, replies)
    /\ LET e == execute(sv.state, sendOk, replies) IN
       svlog' = [NoOp EXCEPT
                    !.op = "execute", !.ok = sendOk, !.before = sv,
                    !.reads = SubSeq(replies, 1, e.n),
                    !.returned = execute_messages(sv.state, sendOk, replies),
                    !.status = IF e.n > 0 THEN read_error(replies[e.n]).status
                               ELSE "-"]
    /\ SvIdle

SvHealthcheck(sendOk, replies) ==
    /\ ops < MaxOps /\ ops' = ops + 1
    /\ Complete(replies)
    /\ LET h == healthcheck(sv.state, sendOk, replies)
           w == server_execute(sv, sendOk, replies)
       IN /\ sv' = [w EXCEPT !.state = h.state]
          /\ svlog' = [NoOp EXCEPT
                          !.op = "healthcheck", !.ok = sendOk, !.before = sv,
                          !.reads = SubSeq(replies, 1, h.n),
                          !.status = IF h.n > 0
                                     THEN read_error(replies[h.n]).status
                                     ELSE "-"]
    /\ SvIdle

SvRollback(sendOk, replies) ==
    /\ ops < MaxOps /\ ops' = ops + 1
    /\ Complete(replies)
    /\ sv' = server_rollback(sv, sendOk, replies)
    /\ LET r == rollback(sv.state, sendOk, replies) IN
       svlog' = [NoOp EXCEPT !.op = "rollback", !.ok = sendOk, !.before = sv,
                             !.reads = SubSeq(replies, 1, r.n)]
    /\ SvIdle

NextServer ==
    \/ \E ok \in BOOLEAN : SvSend(ok)
    \/ \E ok \in BOOLEAN : SvFlush(ok)
    \/ \E r \in Replies : SvRead(r)
    \/ \E ok \in BOOLEAN, replies \in ReplySeqs : SvExecute(ok, replies)
    \/ \E ok \in BOOLEAN, replies \in ReplySeqs : SvHealthcheck(ok, replies)
    \/ \E ok \in BOOLEAN, replies \in ReplySeqs : SvRollback(ok, replies)

Next == NextClient \/ NextMonitor \/ NextWait

Simple == {m \in ClientMessages : m.code \in {"Q", "P", "X"}}

\* One client session and the pool it checks out of; the Monitor is idle.
Init == InitWith({"c1"}, ClientMessages, MaxMsgs) /\ InitLib
Spec == Init /\ [][NextClient]_vars

\* One client session sending simple queries, and the pool with its Monitor.
InitMonitor == InitWith({"c1"}, Simple, MaxMonMsgs) /\ InitLib
SpecMonitor == InitMonitor /\ [][NextClient \/ NextMonitor]_vars

\* Two client sessions sending simple queries to the same pool.
InitPool == InitWith(Clients, Simple, MaxPoolMsgs) /\ InitLib
SpecPool == InitPool /\ [][Next]_vars

\* Two sessions on one pool, the Monitor idle.
SpecCheckout == InitPool /\ [][NextClient \/ NextWait]_vars

\* One Server::connect, from the Startup message on: the TLS request that
\* precedes it is left to the TLS layer.
InitConnect ==
    /\ InitWith({}, {}, 0)
    /\ sort_buffer = NewSortBuffer /\ sblog = NewSortLog /\ codec = NoCodec
    /\ router = NoRouter /\ config = NoConfig
    /\ setup = ConnectStart
SpecConnect == InitConnect /\ [][NextConnect]_vars

\* One Value and one Bind, sharded by Value::shard_placeholder or Value::shard.
InitValue ==
    /\ InitWith({}, {}, 0)
    /\ sort_buffer = NewSortBuffer /\ sblog = NewSortLog /\ codec = NoCodec
    /\ config = NoConfig /\ setup = NoSetup
    /\ router \in ValueInputs
SpecValue == InitValue /\ [][NextValue]_vars

\* Three buffered rows, compared pairwise by the closure of SortBuffer::sort.
InitCompare ==
    /\ InitWith({}, {}, 0)
    /\ sblog = NewSortLog /\ codec = NoCodec /\ router = NoRouter
    /\ config = NoConfig /\ setup = NoSetup
    /\ sort_buffer \in {[buffer |-> <<a, b, c>>, full |-> FALSE] :
                           a \in ComparedRows, b \in ComparedRows,
                           c \in ComparedRows}
SpecCompare == InitCompare /\ [][NextCompare]_vars

\* One message, encoded and decoded, or one pair of row descriptions, compared.
InitMessages ==
    /\ InitWith({}, {}, 0)
    /\ sort_buffer = NewSortBuffer /\ sblog = NewSortLog /\ router = NoRouter
    /\ config = NoConfig /\ setup = NoSetup
    /\ codec \in CodecInputs
SpecMessages == InitMessages /\ [][NextMessages]_vars

\* One statement, parsed by the router for one cluster, and its route.
InitRouter ==
    /\ InitWith({}, {}, 0)
    /\ sort_buffer = NewSortBuffer /\ sblog = NewSortLog /\ codec = NoCodec
    /\ config = NoConfig /\ setup = NoSetup
    /\ router \in RouterInputs
SpecRouter == InitRouter /\ [][NextRouter]_vars

\* One Router of one client session, asked to parse one buffer after another.
InitSession ==
    /\ InitWith({}, {}, 0)
    /\ sort_buffer = NewSortBuffer /\ sblog = NewSortLog /\ codec = NoCodec
    /\ config = NoConfig /\ setup = NoSetup
    /\ router \in {NewRouter(c) : c \in Clusters}
SpecSession == InitSession /\ [][NextSession]_vars

\* One pool Config, asked for one of its durations.
InitConfig ==
    /\ InitWith({}, {}, 0)
    /\ sort_buffer = NewSortBuffer /\ sblog = NewSortLog /\ codec = NoCodec
    /\ router = NoRouter
    /\ config \in {[stage |-> "config", config |-> c] : c \in Configs}
    /\ setup = NoSetup
SpecConfig == InitConfig /\ [][NextConfig]_vars

\* One SortBuffer, driven through add, sort, full and take in any order.
InitSort == InitWith({}, {}, 0) /\ InitLib
SpecSort == InitSort /\ [][NextSort]_vars

\* One Server, driven through its public operations in any order.
InitServer == InitWith({}, {}, 0) /\ InitLib
SpecServer == InitServer /\ [][NextServer]_vars

\* ------------------------------------------------------------ properties
Live(s) == pc[s] \notin {"absent", "failed", "done"}

\* C1: every Query a session sent to a server has had its ReadyForQuery
\* read by the session before the session releases the guard, a second
\* Query sent before the first ReadyForQuery was read included: a session
\* that waits for input without a guard is owed no ReadyForQuery.
C1_QueryAnsweredBeforeRelease ==
    \A s \in Clients :
        (pc[s] = "select" /\ guard[s] = NoConn) => owed[s] = {}

\* C2: from the send of BEGIN until the ReadyForQuery of the matching
\* COMMIT or ROLLBACK is read, the session holds the guard BEGIN was sent
\* on, and no other session holds that connection.
C2_TransactionPinsGuard ==
    \A s \in Clients :
        (txn[s].open /\ Live(s)) =>
            /\ guard[s] = txn[s].conn
            /\ \A o \in Clients \ {s} : guard[o] # txn[s].conn

\* C3: a session that waits for input holds a guard only if that server
\* connection is not Idle: the read that leaves the connection Idle
\* releases the guard before any further input is handled.
C3_GuardOnlyWhileNotIdle ==
    \A s \in Clients :
        (pc[s] = "select" /\ guard[s] # NoConn) =>
            conns[guard[s]].state # "Idle"

C3_Witness ==
    \E s \in Clients :
        /\ pc[s] = "select" /\ guard[s] = NoConn /\ fwdLog[s] # << >>
        /\ idle # << >> /\ conns[Head(idle)].state = "Idle"

\* C4: the idle connections plus the checked-out connections of a pool
\* never number more than max.
C4_PoolCapacity == Len(idle) + checked_out <= max

\* C5: no connection in state Error or Disconnected is in the idle set of
\* the pool, so none is handed to a checkout.
C5_NoErrorInIdle ==
    \A i \in 1..Len(idle) :
        conns[idle[i]].state \notin {"Error", "Disconnected"}

C5_Witness ==
    \E s \in Clients, c \in closed :
        ioerr[s] /\ conns[c].state = "Error" /\ guard[s] = NoConn

\* C6: a checkout is in progress only for a full buffer, and no checkout
\* is in progress while messages are accumulated in a buffer not yet full.
C6_CheckoutOnlyWhenFull ==
    \A s \in Clients :
        /\ pc[s] \in {"get", "connecting", "queued"} =>
               (pending[s] # << >> /\ full(pending[s]))
        /\ buf[s] # << >> =>
               (~full(buf[s]) /\ pc[s] \notin {"get", "connecting", "queued"})

C6_Witness ==
    \E s \in Clients : pc[s] = "get" /\ Len(pending[s]) >= 2

\* C7: the messages sent to the server are client messages in the order
\* the client sent them, and the messages forwarded to the client are the
\* messages of the server in the order it produced them; none is
\* reordered or duplicated.
C7_OrderPreserved ==
    \A s \in Clients :
        /\ \A i \in 1..Len(sentLog[s]) : sentLog[s][i] \in 1..nread[s]
        /\ \A i, j \in 1..Len(sentLog[s]) :
               i < j => sentLog[s][i] < sentLog[s][j]
        /\ \A i, j \in 1..Len(fwdLog[s]) :
               (i < j /\ fwdLog[s][i][1] = fwdLog[s][j][1]) =>
                   fwdLog[s][i][2] < fwdLog[s][j][2]

C7_Witness ==
    \E s \in Clients : Len(sentLog[s]) >= 3 /\ Len(fwdLog[s]) >= 3

\* C8: once Terminate is read the loop has ended with the client
\* Disconnected, and from then on the session sends nothing to a server
\* and starts no checkout, whatever the buffer held.
C8_TerminateEndsSession ==
    [][\A s \in Clients :
          xread'[s] =>
              /\ pc'[s] = "done" /\ cstate'[s] = "Disconnected"
              /\ sentLog'[s] = sentLog[s]
              /\ checkouts'[s] = checkouts[s]
              /\ pending'[s] = pending[s]]_vars

C8_Witness ==
    \E s \in Clients : xread[s] /\ xdrop[s] > 0 /\ pc[s] = "done"

\* C9: the step on which an I/O error occurs ends the loop with the error
\* and without a guard, and the session sends, reads and forwards nothing
\* after it.
C9_IoErrorStopsSession ==
    [][\A s \in Clients :
          /\ ioerr'[s] => (pc'[s] = "failed" /\ guard'[s] = NoConn)
          /\ ioerr[s] =>
                 /\ sentLog'[s] = sentLog[s] /\ fwdLog'[s] = fwdLog[s]
                 /\ nread'[s] = nread[s] /\ checkouts'[s] = checkouts[s]]_vars

C9_Witness ==
    \E s \in Clients :
        /\ ioerr[s] /\ pc[s] = "failed" /\ sentLog[s] # << >>
        /\ guard[s] = NoConn /\ checked_out = 0 /\ created > 0

\* C10: a connection in state Error stays in state Error under send,
\* flush, read, execute, healthcheck and rollback.
C10_ErrorIsTerminal ==
    [][sv.state = "Error" => sv'.state = "Error"]_vars

\* C11: in every reachable state of a server connection in_sync() is true
\* exactly in Idle, IdleInTransaction and TransactionError, and
\* in_transaction() exactly in IdleInTransaction and TransactionError.
C11_SyncAndTransactionStates ==
    /\ sv.state \in States
    /\ in_sync(sv.state) <=>
           sv.state \in {"Idle", "IdleInTransaction", "TransactionError"}
    /\ in_transaction(sv.state) <=>
           sv.state \in {"IdleInTransaction", "TransactionError"}
    /\ in_transaction(sv.state) => in_sync(sv.state)
    /\ sv.state \in {"Active", "Error", "Disconnected"} =>
           (~in_sync(sv.state) /\ ~in_transaction(sv.state))

C11_Witness ==
    /\ sv.state = "TransactionError" /\ sv.queries > 0 /\ sv.sent > 0

Count(s, x) == Cardinality({i \in 1..Len(s) : s[i] = x})
Messages(rows) == [i \in 1..Len(rows) |-> data_row_to_bytes(rows[i])]
SameRows(s, u) == \A i \in 1..Len(s) : Count(s, s[i]) = Count(u, s[i])
TiedWith(s, x, cols, rd) ==
    SelectSeq(s, LAMBDA r : order_by(r, x, cols, rd, 1) = "Equal")

\* C12: the sort buffer neither loses nor invents rows and sorts stably:
\* the DataRows added are, as a multiset, the rows taken so far and the
\* rows still buffered, and a sort keeps rows that compare equal in the
\* order they had.
C12_SortBufferKeepsRows ==
    /\ Len(sblog.added) = Len(sblog.taken) + Len(sort_buffer.buffer)
    /\ SameRows(sblog.added, sblog.taken \o Messages(sort_buffer.buffer))
    /\ sblog.op = "sort" =>
           \A i \in 1..Len(sblog.before) :
               LET cols == sort_cols(sblog.columns, sblog.rd) IN
               TiedWith(sort_buffer.buffer, sblog.before[i], cols, sblog.rd)
                   = TiedWith(sblog.before, sblog.before[i], cols, sblog.rd)

\* The column (1-based) an ORDER BY clause names in row description rd,
\* 0 when it names none.
ClauseColumn(c, rd) ==
    IF c.kind \in {"Asc", "Desc"} THEN c.column
    ELSE IF \E k \in 1..Len(rd) : rd[k].name = c.name
         THEN CHOOSE k \in 1..Len(rd) :
                  rd[k].name = c.name /\ \A j \in 1..(k - 1) : rd[j].name # c.name
         ELSE 0

\* Clause c tells rows x and y apart.
Decides(c, rd, x, y) ==
    LET k == ClauseColumn(c, rd) IN
    /\ k \in 1..Len(rd) /\ k \in 1..Len(x.columns) /\ k \in 1..Len(y.columns)
    /\ decimal(x.columns[k]) # decimal(y.columns[k])

\* Row x sorts strictly before row y: the first clause that tells them
\* apart puts x first.
Precedes(columns, rd, x, y) ==
    \E i \in 1..Len(columns) :
        LET k == ClauseColumn(columns[i], rd) IN
        /\ Decides(columns[i], rd, x, y)
        /\ \A j \in 1..(i - 1) : ~Decides(columns[j], rd, x, y)
        /\ IF columns[i].kind \in {"Asc", "AscColumn"}
           THEN decimal(x.columns[k]) < decimal(y.columns[k])
           ELSE decimal(x.columns[k]) > decimal(y.columns[k])

\* C13: after SortBuffer::sort the rows are ordered by the ORDER BY clauses
\* in sequence: a positional clause k is the k-th column, a named clause
\* the field of that name, Asc and AscColumn ascending, Desc and DescColumn
\* descending, and a later clause decides only between rows all earlier
\* clauses leave equal.
C13_SortedByClauses ==
    sblog.op = "sort" =>
        /\ SameRows(sblog.before, sort_buffer.buffer)
        /\ Len(sblog.before) = Len(sort_buffer.buffer)
        /\ \A i, j \in 1..Len(sort_buffer.buffer) :
               i < j => ~Precedes(sblog.columns, sblog.rd,
                                  sort_buffer.buffer[j], sort_buffer.buffer[i])

C13_Witness ==
    /\ sblog.op = "sort" /\ Len(sblog.columns) = 2
    /\ sort_buffer.buffer # sblog.before
    /\ Len(sort_buffer.buffer) = 2
    /\ sort_buffer.buffer[1].columns[1] = sort_buffer.buffer[2].columns[1]

\* C14: take() returns None as long as full() has not been called, and
\* once it has been called take() returns the buffered rows front to
\* back, one per call.
C14_NothingTakenBeforeFull ==
    [][/\ ~sort_buffer'.full => sblog'.taken = << >>
       /\ (sblog'.op = "take" /\ ~sort_buffer.full) =>
              (~sblog'.last.some /\ sort_buffer' = sort_buffer)
       /\ (sblog'.op = "take" /\ sort_buffer.full /\ sort_buffer.buffer # << >>) =>
              /\ sblog'.last.some
              /\ sblog'.last.message = data_row_to_bytes(Head(sort_buffer.buffer))
              /\ sort_buffer'.buffer = Tail(sort_buffer.buffer)
              /\ sblog'.taken = Append(sblog.taken, sblog'.last.message)]_vars

C14_Witness ==
    /\ sort_buffer.full /\ Len(sblog.taken) = 2 /\ sblog.op = "take"
    /\ sblog.taken[1] # sblog.taken[2]

\* C15: two row descriptions are equivalent exactly when they have the same
\* number of fields and, at every position, the same name and type_oid.
SameFields(a, b) ==
    /\ Len(a.fields) = Len(b.fields)
    /\ \A i \in 1..Len(a.fields) :
          /\ a.fields[i].name = b.fields[i].name
          /\ a.fields[i].type_oid = b.fields[i].type_oid

C15_EquivalentExactlyWhenSameFields ==
    codec.stage = "compared" => (codec.result <=> SameFields(codec.a, codec.b))

\* C16: a message encoded by to_bytes and decoded by from_bytes is the
\* message itself, field by field, for DataRow, RowDescription, Parse and
\* both variants of Password.
C16_RoundTrip ==
    (codec.stage = "decoded" /\ codec.from = "to_bytes")
        => codec.back = Ok(codec.m)

C16_Witness ==
    /\ codec.stage = "decoded" /\ codec.from = "to_bytes"
    /\ codec.kind = "Password" /\ codec.m.variant = "SASLInitialResponse"
    /\ codec.m.name # << >> /\ codec.m.response # << >>
    /\ codec.back.ok

\* C17: a DataRow with a column of length -1 decodes; the column takes no
\* bytes, and the columns around it decode to their own bytes.
C17_NullColumnDecodes ==
    (codec.stage = "decoded" /\ codec.from = "server")
        => /\ codec.back.ok
           /\ Len(codec.back.value.columns) = Len(codec.m)
           /\ \A i \in 1..Len(codec.m) :
                 ~codec.m[i].null
                    => codec.back.value.columns[i] = codec.m[i].data

\* C18: on a cluster with one shard the route reported for any statement is
\* pinned to shard 0; it is a Read on a read_only cluster and a Write on a
\* write_only one.
C18_SingleShardPinned ==
    (router.stage = "routed" /\ router.cluster.shards = 1)
        => /\ router.route.shard = One(0)
           /\ router.cluster.read_only => router.route.affinity = "Read"
           /\ router.cluster.write_only => router.route.affinity = "Write"

\* C19: a SELECT on tables, without a shard comment, on more than one shard
\* is pinned to shard s exactly when its keys resolve to the set {s}; with
\* no shard or several shards resolved it goes to all shards.
KeyShards(stmt, cluster, params) ==
    {s \in 0..(cluster.shards - 1) :
        \E key \in stmt.keys : key_shard(key, cluster.shards, params) = Some(s)}

C19_SelectPinnedBySingleton ==
    (/\ router.stage = "routed" /\ router.stmt.node = "SelectStmt"
     /\ router.stmt.tables /\ ~router.stmt.comment.some
     /\ router.cluster.shards > 1)
        => LET shards == KeyShards(router.stmt, router.cluster, router.params) IN
           /\ \A s \in 0..(router.cluster.shards - 1) :
                 router.route.shard = One(s) <=> shards = {s}
           /\ Cardinality(shards) # 1 => router.route.shard = Shard_ALL
           /\ router.route.affinity = "Read"

C19_Witness ==
    /\ router.stage = "routed" /\ router.stmt.node = "SelectStmt"
    /\ router.stmt.tables /\ ~router.stmt.comment.some
    /\ router.cluster.shards = MaxShards
    /\ Cardinality(router.stmt.keys) = 2
    /\ KeyShards(router.stmt, router.cluster, router.params) = {0}
    /\ router.route.shard = One(0)

\* C20 (as stated): INSERT, UPDATE, DELETE and every statement that is not a
\* SELECT, a COPY or BEGIN/START/COMMIT/ROLLBACK get a Query route with
\* Write affinity and shard Any.
WriteStatement(stmt) ==
    \/ stmt.node \notin {"SelectStmt", "CopyStmt", "TransactionStmt"}
    \/ /\ stmt.node = "TransactionStmt"
       /\ stmt.kind \notin {"TransStmtBegin", "TransStmtStart",
                            "TransStmtCommit", "TransStmtRollback"}

C20_WritesAnyShard ==
    (router.stage = "routed" /\ WriteStatement(router.stmt))
        => /\ router.command.command = "Query"
           /\ router.route.affinity = "Write"
           /\ router.route.shard = Shard_ANY

\* C20 (amended): such a statement gets a Query route that never goes to all
\* shards; it is Write with shard Any on a cluster of several shards when no
\* shard comment in range is given, pinned to shard N by a comment in range,
\* pinned to shard 0 on a cluster of one shard, and a Read only on a
\* read_only cluster of one shard.
C20_WritesNeverCrossShard ==
    (router.stage = "routed" /\ WriteStatement(router.stmt))
        => LET n == router.cluster.shards
               comment == comment_shard(router.stmt.comment, n)
           IN /\ router.command.command = "Query"
              /\ router.route.shard # Shard_ALL
              /\ router.route.affinity = "Read"
                    <=> (n = 1 /\ router.cluster.read_only)
              /\ (n > 1 /\ ~comment.some)
                    => /\ router.route.affinity = "Write"
                       /\ router.route.shard = Shard_ANY
              /\ (n > 1 /\ comment.some)
                    => router.route.shard = One(comment.value)
              /\ n = 1 => router.route.shard = One(0)

C20_Witness ==
    /\ router.stage = "routed" /\ router.stmt.node = "InsertStmt"
    /\ router.cluster.shards > 1 /\ ~router.stmt.comment.some
    /\ router.route = route_write(None)

\* C21 (as stated): for every cluster, BEGIN and START TRANSACTION parse to
\* StartTransaction, COMMIT to CommitTransaction and ROLLBACK to
\* RollbackTransaction, with or without a shard comment.
TransactionCommand(stmt) ==
    CASE stmt.kind \in {"TransStmtBegin", "TransStmtStart"} -> StartTransaction
      [] stmt.kind = "TransStmtCommit" -> CommitTransaction
      [] stmt.kind = "TransStmtRollback" -> RollbackTransaction

TransactionControl(stmt) ==
    /\ stmt.node = "TransactionStmt"
    /\ stmt.kind \in {"TransStmtBegin", "TransStmtStart", "TransStmtCommit",
                      "TransStmtRollback"}

C21_TransactionCommands ==
    (router.stage = "parsed" /\ TransactionControl(router.stmt))
        => router.command = TransactionCommand(router.stmt)

\* C21 (amended): this holds for every cluster but the one-shard cluster that
\* is read_only or write_only, where every statement parses to a Query
\* pinned to shard 0, a Read or a Write by the flag.
SingleShardNoSplit(cluster) ==
    cluster.shards = 1 /\ (cluster.read_only \/ cluster.write_only)

C21_TransactionCommandsUnlessShortcut ==
    (router.stage = "parsed" /\ TransactionControl(router.stmt))
        => IF SingleShardNoSplit(router.cluster)
           THEN /\ router.command.command = "Query"
                /\ router.command.route.shard = One(0)
                /\ router.command.route.affinity =
                      (IF router.cluster.read_only THEN "Read" ELSE "Write")
           ELSE router.command = TransactionCommand(router.stmt)

C21_Witness ==
    /\ router.stage = "parsed" /\ router.stmt.kind = "TransStmtStart"
    /\ router.cluster.shards > 1 /\ router.cluster.read_only
    /\ comment_shard(router.stmt.comment, router.cluster.shards).some
    /\ router.command = StartTransaction

\* C22: a statement with a shard comment N within the range of the cluster
\* gets a route pinned to shard N, whatever its own analysis gave.
C22_CommentPinsRoute ==
    router.stage = "routed"
        => LET shard == comment_shard(router.stmt.comment, router.cluster.shards)
           IN shard.some => router.route.shard = One(shard.value)

\* C24: a SELECT whose only key is the placeholder $n is pinned to the shard
\* of parameter n - 1 of the Bind when that parameter is there and is text;
\* with a binary or missing parameter, or without a Bind, it goes to all
\* shards.
OnlyPlaceholder(stmt, n) ==
    /\ stmt.node = "SelectStmt" /\ stmt.tables /\ ~stmt.comment.some
    /\ stmt.keys = {Placeholder(n)}

C24_PlaceholderResolved ==
    \A n \in 1..2 :
        (/\ router.stage = "routed" /\ OnlyPlaceholder(router.stmt, n)
         /\ router.cluster.shards > 1)
            => LET bind == router.params
                   there == bind.some /\ n <= Len(bind.value)
                   text_ == there /\ bind.value[n].format = "text"
               IN IF text_ /\ bind.value[n].value.number
                  THEN router.route.shard =
                          One(bind.value[n].value.value % router.cluster.shards)
                  ELSE router.route.shard = Shard_ALL

C24_Witness ==
    /\ router.stage = "routed" /\ OnlyPlaceholder(router.stmt, 2)
    /\ router.cluster.shards > 1
    /\ router.params.some /\ Len(router.params.value) = 2
    /\ router.params.value[1].value # router.params.value[2].value
    /\ router.route.shard = One(1)

\* C23: a parse call that fails, for want of a statement or because the
\* statement does not parse, leaves the command as it was, and route()
\* after it gives the route of that command.
C23_FailedParseKeepsCommand ==
    (router.stage = "session" /\ router.last.call # "-" /\ ~router.last.ok)
        => /\ router.command = router.before
           /\ router.last.call = "route" => router.routed = route(router.before)

C23_Witness ==
    /\ router.stage = "session" /\ router.last.call = "route"
    /\ ~router.last.ok /\ router.last.error = "NotInSync"
    /\ router.calls > 2
    /\ router.command.command = "Query"
    /\ router.routed.shard = One(1)

\* C25 (as stated): a SELECT without tables and without a shard comment is a
\* Read on the shard (round-robin counter mod number of shards), and such
\* statements visit the shards in cyclic order.
RoundRobinSelect ==
    /\ router.stage = "session" /\ router.last.call = "query" /\ router.last.ok
    /\ router.last.buffer.query.some
    /\ router.last.buffer.query.value.node = "SelectStmt"
    /\ ~router.last.buffer.query.value.tables
    /\ ~router.last.buffer.query.value.comment.some

RoundRobinShard ==
    LET n == router.cluster.shards IN
    /\ router.command.command = "Query"
    /\ router.command.route.shard = One(router.last.round_robin % n)
    /\ router.previous.some
          => router.command.route.shard = One((router.previous.value.shard + 1) % n)

C25_RoundRobinRead ==
    RoundRobinSelect => (RoundRobinShard /\ router.command.route.affinity = "Read")

\* C25 (amended): the same, but on a write_only cluster of one shard the
\* route is a Write on shard 0.
C25_RoundRobinReadUnlessWriteOnly ==
    RoundRobinSelect
        => /\ RoundRobinShard
           /\ router.command.route.affinity =
                 (IF router.cluster.shards = 1 /\ router.cluster.write_only
                  THEN "Write" ELSE "Read")

C25_Witness ==
    /\ RoundRobinSelect /\ router.cluster.shards = 2
    /\ router.previous = Some(One(1))
    /\ router.command.route.shard = One(0)

\* C26: connect_timeout() is the configured connect_timeout and
\* checkout_timeout() the configured checkout_timeout, in milliseconds.
C26_TimeoutsIndependent ==
    config.stage = "called"
        => /\ config.method = "connect_timeout"
                => config.result = from_millis(config.config.connect_timeout)
           /\ config.method = "checkout_timeout"
                => config.result = from_millis(config.config.checkout_timeout)

\* What the last operation on the connection met.
IsReadyForQuery(r) == r # IoError /\ r.code = "Z"
LastRead == svlog.reads[Len(svlog.reads)]
ReadReadyForQuery == svlog.reads # << >> /\ IsReadyForQuery(LastRead)
Named(status) ==
    CASE status = "I" -> "Idle"
      [] status = "T" -> "IdleInTransaction"
      [] status = "E" -> "TransactionError"
      [] OTHER -> "Error"
Wrote == svlog.op = "send"
           \/ (svlog.op \in {"execute", "healthcheck"}
                 /\ svlog.before.state
                       \in {"Idle", "IdleInTransaction", "TransactionError"})
           \/ (svlog.op = "rollback"
                 /\ svlog.before.state \in {"IdleInTransaction", "TransactionError"})
IoFailed ==
    \/ svlog.op \in {"send", "flush"} /\ ~svlog.ok
    \/ Wrote /\ ~svlog.ok
    \/ svlog.reads # << >> /\ LastRead = IoError

\* C27 (as stated): the state changes only in a step that reads a
\* ReadyForQuery, to the state its status byte names, or in a step whose I/O
\* fails, to Error.
C27_StateDrivenByServer ==
    sv.state # svlog.before.state
        => \/ ReadReadyForQuery /\ sv.state = Named(LastRead.status)
           \/ IoFailed /\ sv.state = "Error"

\* C27 (amended): besides these, a successful send() sets Active and a
\* rollback() on a connection that is neither in a transaction nor in sync
\* sets Error; a successful flush(), a read of a message that is not a
\* ReadyForQuery, an execute() refused for NotInSync and a rollback() on an
\* Idle connection leave the state as it was.
C27_StateDrivenByServerAndSend ==
    /\ sv.state # svlog.before.state
          => \/ ReadReadyForQuery /\ sv.state = Named(LastRead.status)
             \/ IoFailed /\ sv.state = "Error"
             \/ svlog.op = "send" /\ svlog.ok /\ sv.state = "Active"
             \/ /\ svlog.op = "rollback"
                /\ svlog.before.state \in {"Active", "Disconnected"}
                /\ sv.state = "Error"
    /\ (\/ svlog.op = "flush" /\ svlog.ok
        \/ svlog.op = "read" /\ ~IsReadyForQuery(LastRead) /\ LastRead # IoError
        \/ svlog.op \in {"execute", "healthcheck"} /\ sv.result = "NotInSync"
        \/ svlog.op = "rollback" /\ svlog.before.state = "Idle")
          => sv.state = svlog.before.state

C27_Witness ==
    /\ svlog.op = "flush" /\ svlog.ok
    /\ svlog.before.state = "Active" /\ sv.state = "Active"
    /\ sv.sent > 0

\* C28 (as stated): read() of a ReadyForQuery sets the state its status byte
\* names and any other message leaves the state; the transaction counter
\* and the query counter go up by one exactly when the ReadyForQuery brings
\* the connection to Idle.
ReadStates ==
    svlog.op = "read" /\ svlog.returned # << >>
        => sv.state = (IF IsReadyForQuery(LastRead) THEN Named(LastRead.status)
                       ELSE svlog.before.state)

ToIdle == IsReadyForQuery(LastRead) /\ LastRead.status = "I"

C28_CountersOnIdle ==
    svlog.op = "read"
        => /\ ReadStates
           /\ sv.transactions = svlog.before.transactions + (IF ToIdle THEN 1 ELSE 0)
           /\ sv.queries = svlog.before.queries + (IF ToIdle THEN 1 ELSE 0)

\* C28 (amended): the transaction counter goes up by one exactly when the
\* ReadyForQuery brings the connection to Idle, and the query counter goes
\* up by one for every ReadyForQuery read, whatever its status byte.
C28_CountersOnReadyForQuery ==
    svlog.op = "read"
        => /\ ReadStates
           /\ sv.transactions = svlog.before.transactions + (IF ToIdle THEN 1 ELSE 0)
           /\ sv.queries = svlog.before.queries
                              + (IF IsReadyForQuery(LastRead) THEN 1 ELSE 0)

C28_Witness ==
    /\ svlog.op = "read" /\ IsReadyForQuery(LastRead) /\ LastRead.status = "T"
    /\ svlog.before.state = "Active" /\ sv.state = "IdleInTransaction"
    /\ sv.queries = 2 /\ sv.transactions = 1

\* C29: read() of a ReadyForQuery with a status byte other than 'I', 'T',
\* 'E' returns UnexpectedTransactionStatus with that byte and leaves the
\* connection in Error, neither in sync nor done.
C29_UnknownStatusIsFatal ==
    (/\ svlog.op = "read" /\ IsReadyForQuery(LastRead)
     /\ LastRead.status \notin {"I", "T", "E"})
        => /\ sv.result = "UnexpectedTransactionStatus"
           /\ svlog.status = LastRead.status
           /\ svlog.returned = << >>
           /\ sv.state = "Error"
           /\ ~in_sync(sv.state) /\ ~done(sv.state) /\ error(sv.state)

C29_Witness ==
    /\ svlog.op = "read" /\ IsReadyForQuery(LastRead) /\ LastRead.status = "X"
    /\ svlog.before.state = "Idle" /\ sv.state = "Error"

\* C30: execute() on a connection that is not in sync returns NotInSync,
\* sends nothing and changes neither state nor counters; when it returns
\* successfully the connection is in sync and the messages returned are
\* those read, the last one the ReadyForQuery that restored the sync.
C30_ExecuteNeedsSync ==
    svlog.op = "execute"
        => /\ svlog.before.state \in {"Active", "Error", "Disconnected"}
                 => /\ sv.result = "NotInSync"
                    /\ svlog.returned = << >> /\ svlog.reads = << >>
                    /\ sv = [svlog.before EXCEPT !.result = "NotInSync"]
           /\ sv.result = "Ok"
                 => /\ sv.state \in {"Idle", "IdleInTransaction", "TransactionError"}
                    /\ sv.sent = svlog.before.sent + 1
                    /\ svlog.returned = svlog.reads
                    /\ svlog.returned # << >>
                    /\ IsReadyForQuery(svlog.returned[Len(svlog.returned)])
                    /\ sv.state = Named(svlog.returned[Len(svlog.returned)].status)
                    /\ \A i \in 1..(Len(svlog.returned) - 1) :
                          ~IsReadyForQuery(svlog.returned[i])

C30_Witness ==
    /\ svlog.op = "execute" /\ sv.result = "Ok"
    /\ Len(svlog.returned) = 2 /\ svlog.before.state = "TransactionError"
    /\ sv.state = "Idle"

\* C31: rollback() sends ROLLBACK exactly when the connection is in a
\* transaction at the call; on an Idle connection it sends nothing and
\* leaves the state; when the send or the read of the reply fails the
\* connection ends in Error.
C31_RollbackWhenInTransaction ==
    svlog.op = "rollback"
        => /\ in_transaction(svlog.before.state)
                 => /\ svlog.ok => sv.sent = svlog.before.sent + 1
                    /\ ~svlog.ok => sv.sent = svlog.before.sent /\ sv.state = "Error"
                    /\ (svlog.ok /\ LastRead = IoError) => sv.state = "Error"
                    /\ svlog.ok => svlog.reads # << >>
           /\ ~in_transaction(svlog.before.state)
                 => sv.sent = svlog.before.sent /\ svlog.reads = << >>
           /\ svlog.before.state = "Idle"
                 => sv = [svlog.before EXCEPT !.result = "Ok"]

C31_Witness ==
    /\ svlog.op = "rollback" /\ svlog.ok
    /\ svlog.before.state = "TransactionError"
    /\ sv.sent = svlog.before.sent + 1
    /\ Len(svlog.reads) = 2 /\ LastRead = IoError
    /\ sv.state = "Error"

\* C38: after rollback() the connection is in sync (Idle, IdleInTransaction,
\* TransactionError) or in Error, never Active or Disconnected, whatever the
\* state at the call and whatever the server answered.
C38_RollbackLeavesSyncOrError ==
    svlog.op = "rollback"
        => /\ sv.state \in {"Idle", "IdleInTransaction", "TransactionError", "Error"}
           /\ in_sync(sv.state) \/ error(sv.state)
           /\ ~in_sync(svlog.before.state) => sv.state = "Error"

C38_Witness ==
    /\ svlog.op = "rollback"
    /\ svlog.before.state = "Active"
    /\ sv.state = "Error"

\* What one finished connect() read.
SetupLast == setup.read[Len(setup.read)]
SetupCodes == [i \in 1..Len(setup.read) |->
                  IF setup.read[i] = IoError THEN "-" ELSE setup.read[i].code]
KeyDataRead == \E i \in 1..Len(setup.read) : SetupCodes[i] = "K"
AuthOkAt(i) == SetupCodes[i] = "R" /\ setup.read[i].auth = "Ok"

\* C32: connect() fails with ConnectionError whenever the server sends 'E',
\* before or after AuthenticationOk, with NoBackendKeyData when
\* ReadyForQuery comes without a BackendKeyData before it, and with
\* UnexpectedMessage for any other unexpected tag; a Server, in Idle, is
\* produced only after AuthenticationOk, a BackendKeyData and then
\* ReadyForQuery, in that order.
C32_ConnectFailures ==
    (setup.stage = "done" /\ setup.read # << >> /\ SetupLast # IoError)
        => /\ SetupLast.code = "E"
                 => setup.result = "ConnectionError" /\ setup.code = "E"
           /\ (SetupLast.code = "Z" /\ Len(setup.read) > 1 /\ ~KeyDataRead)
                 => setup.result = "NoBackendKeyData"
           /\ (\/ SetupLast.code = "N"
               \/ Len(setup.read) = 1 /\ SetupLast.code \in {"S", "K", "Z"}
               \/ Len(setup.read) > 1 /\ SetupLast.code = "R")
                 => setup.result = "UnexpectedMessage" /\ setup.code = SetupLast.code
           /\ setup.result = "Ok"
                 => /\ setup.state = "Idle"
                    /\ AuthOkAt(1)
                    /\ SetupLast.code = "Z"
                    /\ \E i \in 2..(Len(setup.read) - 1) : SetupCodes[i] = "K"

\* The ORDER BY entry a SortBy clause stands for: a position or a column
\* name, descending only for an explicit DESC (SortByDir 3).
Positional(clause) == clause.node = "AConst" /\ clause.val = "Ival"
Named_(clause) == clause.node = "ColumnRef" /\ clause.field = "String"
Sortable(clause) == Positional(clause) \/ Named_(clause)
EntryOf(clause) ==
    LET desc == clause.sortby_dir = 3 IN
    IF Positional(clause)
    THEN [kind |-> IF desc THEN "Desc" ELSE "Asc",
          column |-> clause.ival, name |-> ""]
    ELSE [kind |-> IF desc THEN "DescColumn" ELSE "AscColumn",
          column |-> 0, name |-> clause.sval]
Entries(clauses) ==
    LET keep == SelectSeq(clauses, Sortable)
    IN [i \in 1..Len(keep) |-> EntryOf(keep[i])]

\* C33: Route.order_by of a SELECT has one entry per ORDER BY clause that is
\* an integer constant or a column reference, in clause order, descending
\* only for an explicit DESC and ascending for every other direction
\* (unspecified, default, ASC, USING); other expressions give no entry.
C33_OrderByFromClauses ==
    (/\ router.stage = "routed"
     /\ router.stmt.node = "SelectStmt" /\ router.stmt.tables
     /\ ~SingleShardNoSplit(router.cluster))
        => router.route.order_by = Entries(router.stmt.sort_clause)

\* C37: a route that pins a shard names a shard the cluster has, for every
\* statement, shard comment, key value and bind parameter.
PinnedInRange(r, cluster) ==
    r.shard.selector = "One" => r.shard.shard \in 0..(cluster.shards - 1)

C37_PinnedShardInRange ==
    /\ (router.stage \in {"parsed", "routed"} /\ router.command.command = "Query")
          => PinnedInRange(router.command.route, router.cluster)
    /\ router.stage = "routed" => PinnedInRange(router.route, router.cluster)

C37_Witness ==
    /\ router.stage = "routed"
    /\ router.cluster.shards = MaxShards
    /\ router.stmt.node = "SelectStmt" /\ router.stmt.tables
    /\ router.stmt.comment = None
    /\ router.stmt.keys = {Placeholder(2)}
    /\ router.route.shard = One(1)

\* C39: Value::shard_placeholder computes the parameter index without
\* underflow or wrap-around for every placeholder number, 0 and negative
\* numbers included: below 1 it returns no shard and indexes nothing.
C39_PlaceholderIndexNoUnderflow ==
    (router.stage = "shard_placeholder" /\ router.value.kind = "Placeholder")
        => /\ ~router.result.panic
           /\ ~router.result.wrapped
           /\ router.value.placeholder < 1 => router.result.shard = None

\* C36: the comparator of SortBuffer::sort is a consistent total preorder,
\* also over rows whose sort column is NULL, missing or not comparable:
\* antisymmetric in sign, ties transitive, and a row below one of two tied
\* rows never above the other.
Reverse(o) == CASE o = "Less" -> "Greater" [] o = "Greater" -> "Less"
                [] OTHER -> "Equal"

C36_ComparatorTotalPreorder ==
    sblog.op = "compare"
        => \A a \in 1..3, b \in 1..3, c \in 1..3 :
              /\ sblog.cmp[a][b] = Reverse(sblog.cmp[b][a])
              /\ (sblog.cmp[a][b] = "Equal" /\ sblog.cmp[b][c] = "Equal")
                    => sblog.cmp[a][c] = "Equal"
              /\ (sblog.cmp[a][b] = "Less" /\ sblog.cmp[b][c] = "Equal")
                    => sblog.cmp[a][c] # "Greater"

\* The client messages of session s, by their number, that are in a buffer.
SeqSet(b) == {b[i].seq : i \in 1..Len(b)}
Sent(s) == {sentLog[s][i] : i \in 1..Len(sentLog[s])}

\* C34: no client message is lost by the session loop: every message read,
\* other than Terminate, is in the buffer being filled, in the full buffer
\* on its way to the server, or was sent, and none is sent twice; also
\* when the server branch of the select runs while the buffer holds
\* messages and is not yet full.
C34_NoClientMessageLost ==
    \A s \in Clients :
        (Live(s) /\ ~xread[s])
            => /\ \A n \in 1..nread[s] :
                     n \in Sent(s) \cup SeqSet(buf[s]) \cup SeqSet(pending[s])
               /\ \A i \in 1..Len(sentLog[s]), k \in 1..Len(sentLog[s]) :
                     sentLog[s][i] = sentLog[s][k] => i = k

\* The session waits in the select and the server has nothing more to say.
Quiet(s) ==
    /\ pc[s] = "select"
    /\ guard[s] # NoConn => conns[guard[s]].out = << >>

\* C35: every server message forwarded to the client is flushed to the
\* client's socket without a further client request: once the server has
\* nothing more to send, nothing written to the client is left unflushed.
C35_ForwardedIsFlushed ==
    \A s \in Clients : Quiet(s) => unflushed[s] = 0

====
